---- MODULE Spec2Model ----
(***************************************************************************)
(* Selector generator of playwright-core/src/server/injected/             *)
(* selectorGenerator2.ts: generateSelector over a small DOM, the candidate *)
(* algebra (SelectorCandidate, SelectorCandidateCollection), and the       *)
(* selector query it ends with.                                            *)
(*                                                                         *)
(* DOM encoding.  Elements are 1..n in document (pre-)order, 0 is the      *)
(* Document, parent[e] < e.  An element is a record of its tag, its        *)
(* attributes and the text node that precedes its first child.  Text-like  *)
(* values (text, placeholder, alt, aria-label, id) are sequences of        *)
(* one-character strings so that substring, case and white-space handling  *)
(* is computed; the empty value stands for a missing attribute.            *)
(***************************************************************************)
EXTENDS Integers, Sequences, FiniteSets, TLC

VARIABLES
    dom,        \* [parent: Seq(Nat), el: Seq(element record)]
    target,     \* the element passed to generateSelector
    options,    \* the caller's GenerateSelectorOptions object (mutated by the call)
    pc,         \* "start" | "called" | "called2"
    result,     \* what the first call returned (or threw)
    result2,    \* what the second call returned
    coll,       \* SelectorCandidateCollection objects, in creation order: their _best
    offered,    \* history, per collection: the _best it was created with (seed) and
                \* the candidates offered to it since, in order (seq)
    cands,      \* the SelectorCandidate objects constructed by hand so far
    parsed,     \* the parsed role selector given to RoleEngine.queryAll
    queried,    \* what RoleEngine.queryAll did with it
    mock,       \* the mocked WebSocket: page socket, real connection, route,
                \* and the two message channels between page and node
    chan,       \* the channel of an init script: page side, host side and the
                \* payloads in flight between them
    runner,     \* a TimeoutRunner, its time slots, the clock and the running cb
    memo,       \* the generator's _elementToChainWithText and _elementToChainWithoutText,
                \* the lookups made so far and the computations behind them
    pointer     \* one retryPointerAction call: its progress, retry count and position

roleVars == <<parsed, queried>>
vars == <<dom, target, options, pc, result, result2, coll, offered, cands, roleVars, mock, chan, runner, memo, pointer>>

\* No WebSocket has been constructed.
NoMock == <<>>

\* No init script has run.
NoChan == <<>>

\* No TimeoutRunner has been constructed.
NoRunner == <<>>

\* No SelectorGenerator has been constructed.
NoMemo == <<>>

\* No pointer action has been started.
NoPointer == <<>>

(***************************************************************************)
(* Score constants, selectorGenerator2.ts:80-101.                          *)
(***************************************************************************)
kTestIdScore == 1
kOtherTestIdScore == 2
kIframeByAttributeScore == 10
kPlaceholderScore == 100
kLabelScore == 120
kRoleWithNameScore == 140
kAltTextScore == 160
kTextScore == 180
kTitleScore == 200
kCSSIdScore == 500
kRoleWithoutNameScore == 510
kCSSInputTypeNameScore == 520
kTextLengthMaxPenalty == 10
kExactPenalty == 5
kXPathParentsScore == 1000
kChainScorePenalty == 1
kNthScoreMin == 5000
kNthScoreMax == 10000
kCSSFallbackScore == 10000
kMaxTextLength == 80
kShallowDepth == 4
kShallowTotal == 100
kNthBucket == 4
kTextLengthUnit == 10

Undef == -1          \* undefined / null element reference
Document == 0
E == <<>>            \* the empty text value

(***************************************************************************)
(* Sequence helpers.                                                       *)
(***************************************************************************)
Min(a, b) == IF a < b THEN a ELSE b

RECURSIVE SumSeq(_)
SumSeq(s) == IF s = <<>> THEN 0 ELSE Head(s) + SumSeq(Tail(s))

RECURSIVE FlattenSeq(_)
FlattenSeq(ss) == IF ss = <<>> THEN <<>> ELSE Head(ss) \o FlattenSeq(Tail(ss))

InSeq(x, s) == \E i \in 1..Len(s) : s[i] = x

\* Array.prototype.indexOf: 0-based, -1 when absent.
IndexOf(s, x) ==
    IF InSeq(x, s) THEN (CHOOSE i \in 1..Len(s) : s[i] = x /\ \A j \in 1..(i-1) : s[j] # x) - 1
    ELSE -1

(***************************************************************************)
(* Strings as character sequences.                                         *)
(***************************************************************************)
\* String.prototype.toLowerCase / toUpperCase on the alphabet of the model.
LowerChar(c) == IF c = "A" THEN "a" ELSE IF c = "B" THEN "b" ELSE c
UpperChar(c) == IF c = "a" THEN "A" ELSE IF c = "b" THEN "B" ELSE c
toLowerCase(s) == IF s = <<>> THEN <<>> ELSE [i \in 1..Len(s) |-> LowerChar(s[i])]
toUpperCase(s) == IF s = <<>> THEN <<>> ELSE [i \in 1..Len(s) |-> UpperChar(s[i])]

OccursAt(text, sub, i) ==
    /\ i >= 1
    /\ i + Len(sub) - 1 <= Len(text)
    /\ \A k \in 1..Len(sub) : text[i + k - 1] = sub[k]

\* String.prototype.indexOf(sub, from), 0-based, -1 when absent.
StrIndexOf(text, sub, from) ==
    LET hits == {i \in (from + 1)..(Len(text) + 1) : OccursAt(text, sub, i)}
    IN IF hits = {} THEN -1 ELSE (CHOOSE i \in hits : \A j \in hits : i <= j) - 1

includes(text, sub) == StrIndexOf(text, sub, 0) # -1

substring(s, from, to) == SubSeq(s, from + 1, Min(to, Len(s)))

\* trim() and collapse runs of white space to one space.
RECURSIVE CollapseSpaces(_)
CollapseSpaces(s) ==
    IF Len(s) <= 1 THEN s
    ELSE IF s[1] = " " /\ s[2] = " " THEN CollapseSpaces(Tail(s))
    ELSE <<s[1]>> \o CollapseSpaces(Tail(s))

RECURSIVE TrimLeft(_)
TrimLeft(s) == IF s # <<>> /\ Head(s) = " " THEN TrimLeft(Tail(s)) ELSE s

RECURSIVE TrimRight(_)
TrimRight(s) == IF s # <<>> /\ s[Len(s)] = " " THEN TrimRight(SubSeq(s, 1, Len(s) - 1)) ELSE s

normalizeWhiteSpace(s) == CollapseSpaces(TrimRight(TrimLeft(s)))

(***************************************************************************)
(* The DOM.                                                                *)
(***************************************************************************)
Elements == 1..Len(dom.parent)

\* Element.getAttribute; the empty value stands for null.
getAttribute(e, attr) ==
    CASE attr = "data-testid"  -> dom.el[e].testid
      [] attr = "data-test"    -> dom.el[e].datatest
      [] attr = "id"           -> dom.el[e].id
      [] attr = "title"        -> dom.el[e].title
      [] attr = "placeholder"  -> dom.el[e].placeholder
      [] attr = "alt"          -> dom.el[e].alt
      [] attr = "type"         -> dom.el[e].type
      [] attr = "name"         -> dom.el[e].name
      [] attr = "aria-label"   -> dom.el[e].ariaLabel
      [] OTHER                 -> E

nodeName(e) == dom.el[e].tag

\* Walks parentElement; Undef above the document element.
parentElementOrShadowHost(e) ==
    IF e = Undef \/ e = Document \/ dom.parent[e] = Document THEN Undef ELSE dom.parent[e]

RECURSIVE contains(_, _)
\* Node.contains: inclusive.
contains(scope, e) ==
    IF e = scope THEN TRUE
    ELSE IF e = Document \/ e = Undef THEN FALSE
    ELSE contains(scope, dom.parent[e])

isInsideScope(scope, e) == e # Undef /\ scope # Undef /\ contains(scope, e)

\* Element.children (Document.children for the Document), in document order.
children(e) == SelectSeq([i \in 1..Len(dom.parent) |-> i], LAMBDA c : dom.parent[c] = e)

\* _queryCSS({ scope, pierceShadow: true }, '*'): the proper descendants in document order.
queryAll(scope) ==
    SelectSeq([i \in 1..Len(dom.parent) |-> i], LAMBDA e : e # scope /\ contains(scope, e))

RECURSIVE depthBelow(_, _)
\* Number of parent steps from e up to its ancestor a.
depthBelow(a, e) == IF e = a THEN 0 ELSE 1 + depthBelow(a, dom.parent[e])

(***************************************************************************)
(* Text, selectorUtils.ts:94-128 and selectorGenerator2.ts:556-566.        *)
(***************************************************************************)
shouldSkipForTextMatching(e) == nodeName(e) \in {"SCRIPT", "NOSCRIPT", "STYLE"}

RECURSIVE elementTextFull(_)
elementTextFull(e) ==
    IF shouldSkipForTextMatching(e) THEN E
    ELSE dom.el[e].text
         \o FlattenSeq([i \in 1..Len(children(e)) |-> elementTextFull(children(e)[i])])

\* { full, lowerCase: full.toLowerCase() }, line 563.
TextEntry(full) == [full |-> full, lowerCase |-> toLowerCase(full)]

getElementText(e) == TextEntry(normalizeWhiteSpace(elementTextFull(e)))

(***************************************************************************)
(* Role and accessible name, roleUtils.ts.                                 *)
(***************************************************************************)
NoRole == ""

getImplicitAriaRole(e) ==
    CASE nodeName(e) = "BUTTON" -> "button"
      [] nodeName(e) = "H2"     -> "heading"
      [] nodeName(e) = "INPUT"  -> "textbox"
      [] nodeName(e) = "IMG"    -> IF getAttribute(e, "alt") # E \/ getAttribute(e, "aria-label") # E
                                   THEN "img" ELSE "presentation"
      [] OTHER                  -> NoRole

getAriaRole(e) == getImplicitAriaRole(e)

\* _getElementRole: presentation and none count as no role.
getElementRole(e) ==
    LET role == getAriaRole(e)
    IN IF role \in {"presentation", "none"} THEN NoRole ELSE role

NameFromContent(e) == getAriaRole(e) \in {"button", "heading"}

\* getElementAccessibleName(element, false).accessibleName
accessibleNameOf(e) ==
    IF normalizeWhiteSpace(getAttribute(e, "aria-label")) # E
        THEN normalizeWhiteSpace(getAttribute(e, "aria-label"))
    ELSE IF nodeName(e) = "INPUT" THEN normalizeWhiteSpace(getAttribute(e, "placeholder"))
    ELSE IF nodeName(e) = "IMG" THEN normalizeWhiteSpace(getAttribute(e, "alt"))
    ELSE IF NameFromContent(e) THEN normalizeWhiteSpace(elementTextFull(e))
    ELSE E

\* getElementAccessibleName(element, false).textFrom: the elements whose text
\* the name was derived from (none when the name comes from an attribute).
textFromOf(e) ==
    IF normalizeWhiteSpace(getAttribute(e, "aria-label")) # E THEN {}
    ELSE IF nodeName(e) \in {"INPUT", "IMG"} THEN {}
    ELSE IF NameFromContent(e)
        THEN {x \in Elements : contains(e, x) /\ dom.el[x].text # E}
    ELSE {}

\* { ...name, upperCase: name.accessibleName.toUpperCase() }, line 603.
NameEntry(accessibleName, textFrom) ==
    [accessibleName |-> accessibleName, upperCase |-> toUpperCase(accessibleName),
     textFrom |-> textFrom]

getElementAccessibleName(e) == NameEntry(accessibleNameOf(e), textFromOf(e))

(***************************************************************************)
(* SelectorToken, selectorGenerator2.ts:44-78.  One record shape for all   *)
(* engines; the fields an engine does not use hold their defaults.         *)
(***************************************************************************)
NoCss == [path |-> FALSE, steps |-> <<>>]

\* One compound selector, e.g. div#a.b[type="t"]:nth-child(2).
Compound(tag, id, classes, attr, val, nthChild) ==
    [tag |-> tag, id |-> id, idQuoted |-> FALSE, classes |-> classes,
     attr |-> attr, val |-> val, nthChild |-> nthChild]

NoCompound == Compound("", E, <<>>, "", E, 0)

BaseToken(engine, score) ==
    [engine |-> engine, score |-> score, str |-> "", val |-> E, named |-> FALSE,
     exact |-> FALSE, index |-> 0, css |-> NoCss, hops |-> 0]

TestIdToken(testId, score) == [BaseToken("testId", score) EXCEPT !.val = testId, !.exact = TRUE]
AttrToken(attr, value, exact, score) ==
    [BaseToken("attr", score) EXCEPT !.str = attr, !.val = value, !.exact = exact]
RoleToken(role, score) == [BaseToken("role", score) EXCEPT !.str = role]
RoleNameToken(role, name, exact, score) ==
    [BaseToken("role", score) EXCEPT !.str = role, !.val = name, !.named = TRUE, !.exact = exact]
TextToken(text, exact, score) == [BaseToken("text", score) EXCEPT !.val = text, !.exact = exact]
CssToken(css, score) == [BaseToken("css", score) EXCEPT !.css = css]
XPathToken(hops, score) == [BaseToken("xpath", score) EXCEPT !.hops = hops]
NthToken(index, score) == [BaseToken("nth", score) EXCEPT !.index = index]

(***************************************************************************)
(* SelectorCandidate, selectorGenerator2.ts:610-646.                       *)
(***************************************************************************)
\* The constructor's score (line 616).
CandidateScore(tokens) ==
    SumSeq([i \in 1..Len(tokens) |-> tokens[i].score])
        + (Len(tokens) - 1) * (Len(tokens) - 1) * kChainScorePenalty

\* new SelectorCandidate(tokens)
SelectorCandidate(tokens) == [tokens |-> tokens, score |-> CandidateScore(tokens)]

\* (x | 0) for the quotient n / d, d > 0: truncation toward zero.
TruncDiv(n, d) == IF n >= 0 THEN n \div d ELSE -((-n) \div d)

\* The score without the truncation of the quotient.
NthScore_NoTruncation(index) ==
    Min(kNthScoreMax, (kNthScoreMin * (kNthBucket + index)) \div kNthBucket)

\* Math.min(kNthScoreMax, kNthScoreMin * ((1 + index / 4) | 0))
NthScore(index) == Min(kNthScoreMax, kNthScoreMin * TruncDiv(kNthBucket + index, kNthBucket))

\* appendNth adding the new token's score to the score it already has.
appendNth_AddsToScore(c, index, total) ==
    [tokens |-> Append(c.tokens, NthToken(index, NthScore(index))),
     score |-> c.score + NthScore(index)]

appendNth(c, index, total) ==
    SelectorCandidate(Append(c.tokens, NthToken(index, NthScore(index))))

append(c, other) == SelectorCandidate(c.tokens \o other.tokens)

(***************************************************************************)
(* SelectorCandidateCollection, selectorGenerator2.ts:648-674.  A          *)
(* collection is its _best; NoBest stands for undefined.                   *)
(***************************************************************************)
NoBest == [tokens |-> <<>>, score |-> 0]

\* updateWithCandidate with the comparison turned round.
updateWithCandidate_KeepsHigher(best, candidate) ==
    IF best = NoBest \/ candidate.score > best.score THEN candidate ELSE best

\* updateWithCandidate replacing on a tie as well.
updateWithCandidate_ReplacesOnTie(best, candidate) ==
    IF best = NoBest \/ candidate.score <= best.score THEN candidate ELSE best

updateWithCandidate(best, candidate) ==
    IF best = NoBest \/ candidate.score < best.score THEN candidate ELSE best

updateWithCollection(best, other) ==
    IF other # NoBest THEN updateWithCandidate(best, other) ELSE best

\* chain returning this collection's best when the other has none.
chain_KeepsThisBest(best, other) ==
    IF best = NoBest THEN NoBest
    ELSE IF other = NoBest THEN best ELSE append(best, other)

chain(best, other) ==
    IF other = NoBest \/ best = NoBest THEN NoBest ELSE append(best, other)

RECURSIVE offerAll(_, _)
\* updateWithCandidate for each candidate of a sequence, in order.
offerAll(best, candidates) ==
    IF candidates = <<>> THEN best
    ELSE offerAll(updateWithCandidate(best, Head(candidates)), Tail(candidates))

\* textLengthScore, line 676.
textLengthScore(text) == Min(kTextLengthMaxPenalty, Len(text) \div kTextLengthUnit)

(***************************************************************************)
(* Index tables, selectorGenerator2.ts:176-219.  A table is a function     *)
(* from keys to element lists (document order); Get is Map.get(k) || [].   *)
(***************************************************************************)
Get(table, key) == IF key \in DOMAIN table THEN table[key] ELSE <<>>

\* pushToListMap over allElements: key |-> the elements whose KeyOf is that key.
ListMap(allElements, KeyOf(_), Wanted(_)) ==
    LET keys == {KeyOf(allElements[i]) : i \in {j \in 1..Len(allElements) : Wanted(allElements[j])}}
    IN [k \in keys |-> SelectSeq(allElements, LAMBDA e : Wanted(e) /\ KeyOf(e) = k)]

\* The tables when the loop of lines 179-217 is over.  byTargetTestId and
\* byTargetTitle are what lines 188-196 and 204-206 file.
IndexTables(allElements, byTargetTestId, byTargetTitle) ==
    [roleToElements |->
        ListMap(allElements, LAMBDA e : getElementRole(e), LAMBDA e : getElementRole(e) # NoRole),
     textToElements |->
        ListMap(allElements, LAMBDA e : getElementText(e).full,
                LAMBDA e : getElementText(e).full # E
                           /\ Len(getElementText(e).full) <= kMaxTextLength),
     testIdAttributeToElements |-> byTargetTestId,
     attrToElements |-> [attr \in {"id", "data-testid", "data-test-id", "data-test"} |-> byTargetTestId],
     altElements |-> SelectSeq(allElements, LAMBDA e : getAttribute(e, "alt") # E),
     placeholderElements |-> SelectSeq(allElements, LAMBDA e : getAttribute(e, "placeholder") # E),
     titleToElements |-> byTargetTitle]

\* Lines 188-196 and 204-206 read the key from targetElement for every element
\* visited: each element of the scope is filed under the target's value.
preprocessTree(root, targetElement, opts) ==
    IndexTables(queryAll(root),
                ListMap(queryAll(root),
                        LAMBDA e : getAttribute(targetElement, opts.testIdAttributeName),
                        LAMBDA e : getAttribute(targetElement, opts.testIdAttributeName) # E),
                ListMap(queryAll(root),
                        LAMBDA e : normalizeWhiteSpace(getAttribute(targetElement, "title")),
                        LAMBDA e : getAttribute(targetElement, "title") # E))

InScope(root, elements) == SelectSeq(elements, LAMBDA e : isInsideScope(root, e))

\* tryUpdate of _tryInternalEngines and _tryCSS (lines 288-293, 339-344).
tryUpdate(targetElement, token, elements) ==
    IF Len(elements) > 1
    THEN appendNth(SelectorCandidate(<<token>>), IndexOf(elements, targetElement), Len(elements))
    ELSE SelectorCandidate(<<token>>)

(***************************************************************************)
(* _tryInternalEngines, lines 283-334: the candidates it offers, in order. *)
(***************************************************************************)
tryInternalEngines(ctx, root, targetElement) ==
    IF ctx.opts.omitInternalEngines \/ nodeName(targetElement) \in {"FRAME", "IFRAME"} THEN <<>>
    ELSE
    LET testId == getAttribute(targetElement, ctx.opts.testIdAttributeName)
        placeholder == getAttribute(targetElement, "placeholder")
        alt == getAttribute(targetElement, "alt")
        title == normalizeWhiteSpace(getAttribute(targetElement, "title"))
        inPlaceholders == InScope(root, ctx.tables.placeholderElements)
        inAlts == InScope(root, ctx.tables.altElements)
    IN  (IF testId # E
         THEN <<tryUpdate(targetElement, TestIdToken(testId, kTestIdScore),
                          InScope(root, Get(ctx.tables.testIdAttributeToElements, testId)))>>
         ELSE <<>>)
     \o (IF nodeName(targetElement) \in {"INPUT", "TEXTAREA"} /\ placeholder # E
         THEN <<tryUpdate(targetElement,
                          AttrToken("placeholder", placeholder, TRUE, kPlaceholderScore + kExactPenalty),
                          SelectSeq(inPlaceholders, LAMBDA e : getAttribute(e, "placeholder") = placeholder)),
                tryUpdate(targetElement,
                          AttrToken("placeholder", placeholder, FALSE, kPlaceholderScore),
                          SelectSeq(inPlaceholders,
                                    LAMBDA e : includes(toLowerCase(getAttribute(e, "placeholder")),
                                                        toLowerCase(placeholder))))>>
         ELSE <<>>)
     \o (IF alt # E /\ nodeName(targetElement) \in {"APPLET", "AREA", "IMG", "INPUT"}
         THEN <<tryUpdate(targetElement,
                          AttrToken("placeholder", alt, TRUE, kAltTextScore + kExactPenalty),
                          SelectSeq(inAlts, LAMBDA e : getAttribute(e, "alt") = alt)),
                tryUpdate(targetElement,
                          AttrToken("placeholder", alt, FALSE, kAltTextScore),
                          SelectSeq(inAlts,
                                    LAMBDA e : includes(toLowerCase(getAttribute(e, "alt")),
                                                        toLowerCase(alt))))>>
         ELSE <<>>)
     \o (IF getAttribute(targetElement, "title") # E
         THEN <<tryUpdate(targetElement,
                          AttrToken("title", title, TRUE, kTitleScore + kExactPenalty),
                          InScope(root, Get(ctx.tables.titleToElements, title)))>>
         ELSE <<>>)

(***************************************************************************)
(* _tryRole, lines 397-436.                                                *)
(***************************************************************************)
\* _getRoleList
getRoleList(ctx, root, role) == InScope(root, Get(ctx.tables.roleToElements, role))

\* The elements whose accessible name matches, lines 421-425.
filterByName(elements, name, exact) ==
    SelectSeq(elements, LAMBDA e :
        IF exact THEN getElementAccessibleName(e).accessibleName = name.accessibleName
        ELSE includes(getElementAccessibleName(e).upperCase, name.upperCase))

\* candidateWithName, lines 426-429.
candidateWithName(targetElement, role, name, exact, filtered) ==
    tryUpdate(targetElement,
              RoleNameToken(role, name.accessibleName, exact,
                            kRoleWithNameScore + textLengthScore(name.accessibleName)
                                + (IF exact THEN kExactPenalty ELSE 0)),
              filtered)

\* Lines 405-435 without the omitTextFrom returns of lines 412-418.
tryRoleWith_NamesOmittedText(ctx, targetElement, role, elements, name, laxFiltered) ==
    <<tryUpdate(targetElement, RoleToken(role, kRoleWithoutNameScore), elements)>>
 \o (IF Len(laxFiltered) = 1
     THEN <<candidateWithName(targetElement, role, name, FALSE, laxFiltered)>>
     ELSE <<candidateWithName(targetElement, role, name, FALSE, laxFiltered),
            candidateWithName(targetElement, role, name, TRUE, filterByName(elements, name, TRUE))>>)

\* Lines 420-435 without the break of lines 433-434: the exact variant is
\* tried whatever the lax name matched.
tryRoleWith_ExactAlways(ctx, targetElement, role, elements, name, laxFiltered) ==
    <<tryUpdate(targetElement, RoleToken(role, kRoleWithoutNameScore), elements)>>
 \o (IF ctx.opts.omitTextFrom # Undef
        /\ \E e \in name.textFrom : isInsideScope(ctx.opts.omitTextFrom, e)
     THEN <<>>
     ELSE <<candidateWithName(targetElement, role, name, FALSE, laxFiltered),
            candidateWithName(targetElement, role, name, TRUE, filterByName(elements, name, TRUE))>>)

\* Lines 405-435, for the role list `elements`, the target's accessible name
\* and the role list narrowed by the lax name.
tryRoleWith(ctx, targetElement, role, elements, name, laxFiltered) ==
    <<tryUpdate(targetElement, RoleToken(role, kRoleWithoutNameScore), elements)>>
 \o (IF ctx.opts.omitTextFrom # Undef
        /\ \E e \in name.textFrom : isInsideScope(ctx.opts.omitTextFrom, e)
     THEN <<>>
     ELSE IF Len(laxFiltered) = 1
         THEN <<candidateWithName(targetElement, role, name, FALSE, laxFiltered)>>
     ELSE <<candidateWithName(targetElement, role, name, FALSE, laxFiltered),
            candidateWithName(targetElement, role, name, TRUE, filterByName(elements, name, TRUE))>>)

\* _tryRole without the omitInternalEngines return of lines 398-399.
tryRoleAs_IgnoresOmit(ctx, root, targetElement, role) ==
    IF role = NoRole THEN <<>>
    ELSE tryRoleWith(ctx, targetElement, role, getRoleList(ctx, root, role),
                     getElementAccessibleName(targetElement),
                     filterByName(getRoleList(ctx, root, role),
                                  getElementAccessibleName(targetElement), FALSE))

tryRoleAs(ctx, root, targetElement, role) ==
    IF ctx.opts.omitInternalEngines \/ role = NoRole THEN <<>>
    ELSE tryRoleWith(ctx, targetElement, role, getRoleList(ctx, root, role),
                     getElementAccessibleName(targetElement),
                     filterByName(getRoleList(ctx, root, role),
                                  getElementAccessibleName(targetElement), FALSE))

tryRole(ctx, root, targetElement) == tryRoleAs(ctx, root, targetElement, getElementRole(targetElement))

(***************************************************************************)
(* CSS matching and _tryCSS, lines 336-395; isGuidLike, lines 702-729.     *)
(***************************************************************************)
LowerChars == {"a", "b", "c", "x", "y", "z"}
UpperChars == {"A", "B", "C", "X", "Y", "Z"}
DigitChars == {"0", "1", "2", "3", "4", "5", "6", "7", "8", "9"}

CharType(c) ==
    IF c \in LowerChars THEN "lower"
    ELSE IF c \in UpperChars THEN "upper"
    ELSE IF c \in DigitChars THEN "digit"
    ELSE "other"

RECURSIVE guidTransitions(_, _)
\* The loop of isGuidLike over the rest of the id: the number of transitions counted.
guidTransitions(id, lastCharacterType) ==
    IF id = <<>> THEN 0
    ELSE LET c == Head(id)
             characterType == CharType(c)
         IN IF c = "-" \/ c = "_" THEN guidTransitions(Tail(id), lastCharacterType)
            ELSE IF characterType = "lower" /\ lastCharacterType = "upper"
                THEN guidTransitions(Tail(id), characterType)
            ELSE (IF lastCharacterType # "" /\ lastCharacterType # characterType THEN 1 ELSE 0)
                 + guidTransitions(Tail(id), characterType)

\* transitionCount >= id.length / 4
isGuidLike(id) == 4 * guidTransitions(id, "") >= Len(id)

\* /^[a-zA-Z][a-zA-Z0-9\-\_]+$/.test(id)
IsPlainIdentifier(id) ==
    /\ Len(id) >= 2
    /\ id[1] \in LowerChars \cup UpperChars
    /\ \A i \in 2..Len(id) : id[i] \in LowerChars \cup UpperChars \cup DigitChars \cup {"-", "_"}

\* Element.matches(compound), without the :nth-child part.
matchesCompound(e, c) ==
    /\ c.tag = "" \/ c.tag = nodeName(e)
    /\ c.id = E \/ c.id = dom.el[e].id
    /\ \A i \in 1..Len(c.classes) : InSeq(c.classes[i], dom.el[e].cls)
    /\ c.attr = "" \/ getAttribute(e, c.attr) = c.val

\* Element.matches(compound) with :nth-child.
matchesStep(e, c) ==
    /\ matchesCompound(e, c)
    /\ c.nthChild = 0 \/ IndexOf(children(dom.parent[e]), e) + 1 = c.nthChild

\* _queryCSS({ scope: root, pierceShadow: true }, css) for a one-compound selector.
queryCSS(root, c) == SelectSeq(queryAll(root), LAMBDA e : matchesStep(e, c))

SingleCss(c) == [path |-> FALSE, steps |-> <<c>>]

tryCSS(ctx, root, targetElement) ==
    LET id == getAttribute(targetElement, "id")
        type == getAttribute(targetElement, "type")
        name == getAttribute(targetElement, "name")
        tag == nodeName(targetElement)
        isFrame == tag \in {"FRAME", "IFRAME"}
        byId == [Compound("", id, <<>>, "", E, 0) EXCEPT !.idQuoted = ~IsPlainIdentifier(id)]
        otherTestId(attr) ==
            IF getAttribute(targetElement, attr) # E /\ (attr # ctx.opts.testIdAttributeName \/ isFrame)
            THEN <<tryUpdate(targetElement,
                             CssToken(SingleCss(Compound("", E, <<>>, attr, getAttribute(targetElement, attr), 0)),
                                      kOtherTestIdScore),
                             InScope(root, Get(ctx.tables.attrToElements[attr], getAttribute(targetElement, attr))))>>
            ELSE <<>>
        frameBy(attr) ==
            IF isFrame /\ getAttribute(targetElement, attr) # E
            THEN <<[css |-> Compound(tag, E, <<>>, attr, getAttribute(targetElement, attr), 0),
                    score |-> kIframeByAttributeScore]>>
            ELSE <<>>
        cssCandidates ==
            frameBy("name") \o frameBy("title")
         \o (IF tag \in {"INPUT", "TEXTAREA"} /\ type # <<"hidden">> /\ type # E
             THEN <<[css |-> Compound(tag, E, <<>>, "type", type, 0), score |-> kCSSInputTypeNameScore]>>
             ELSE <<>>)
         \o (IF tag \in {"INPUT", "TEXTAREA", "SELECT"} /\ type # <<"hidden">>
             THEN <<[css |-> Compound(tag, E, <<>>, "", E, 0), score |-> kCSSInputTypeNameScore + 1]>>
             ELSE <<>>)
         \o (IF name # E /\ tag \in {"BUTTON", "FORM", "FIELDSET", "FRAME", "IFRAME", "INPUT", "KEYGEN",
                                     "OBJECT", "OUTPUT", "SELECT", "TEXTAREA", "MAP", "META", "PARAM"}
             THEN <<[css |-> Compound(tag, E, <<>>, "name", name, 0), score |-> kCSSInputTypeNameScore]>>
             ELSE <<>>)
    IN  (IF id # E /\ isGuidLike(id)
         THEN <<tryUpdate(targetElement, CssToken(SingleCss(byId), kCSSIdScore),
                          InScope(root, Get(ctx.tables.attrToElements["id"], id)))>>
         ELSE <<>>)
     \o otherTestId("data-testid") \o otherTestId("data-test-id") \o otherTestId("data-test")
     \o [i \in 1..Len(cssCandidates) |->
            tryUpdate(targetElement,
                      CssToken(SingleCss(cssCandidates[i].css), cssCandidates[i].score),
                      queryCSS(root, cssCandidates[i].css))]

(***************************************************************************)
(* _tryText, lines 438-479; hasTwoOccurences, lines 697-700.               *)
(***************************************************************************)
hasTwoOccurences(text, substr) ==
    LET first == StrIndexOf(text, substr, 0)
    IN first # -1 /\ StrIndexOf(text, substr, first + Len(substr)) # -1

\* The element whose text stands for the root's text: documentElement for a Document.
rootTextElement(root) == IF root = Document THEN 1 ELSE root

\* Lines 461-477 with the exact candidate tried whether or not lax is unique.
tryTextWith_OffersExactToo(ctx, root, targetElement, text, laxText) ==
    LET singleMatchLax ==
            /\ ~hasTwoOccurences(getElementText(rootTextElement(root)).lowerCase, laxText)
            /\ ~\E i \in 1..Len(children(targetElement)) :
                    includes(getElementText(children(targetElement)[i]).lowerCase, laxText)
        elements == InScope(root, Get(ctx.tables.textToElements, text.full))
    IN IF laxText = E THEN <<>>
       ELSE (IF singleMatchLax
             THEN <<SelectorCandidate(<<TextToken(laxText, FALSE, kTextScore + textLengthScore(laxText))>>)>>
             ELSE <<>>)
         \o (IF Len(text.full) <= kMaxTextLength /\ elements = <<targetElement>>
             THEN <<SelectorCandidate(<<TextToken(text.full, TRUE,
                                                 kTextScore + textLengthScore(laxText) + kExactPenalty)>>)>>
             ELSE <<>>)

\* Lines 450-477, for the target's text entry and its lax text.
tryTextWith(ctx, root, targetElement, text, laxText) ==
    LET singleMatchLax ==
            /\ ~hasTwoOccurences(getElementText(rootTextElement(root)).lowerCase, laxText)
            /\ ~\E i \in 1..Len(children(targetElement)) :
                    includes(getElementText(children(targetElement)[i]).lowerCase, laxText)
        elements == InScope(root, Get(ctx.tables.textToElements, text.full))
    IN IF laxText = E THEN <<>>
       ELSE IF singleMatchLax
           THEN <<SelectorCandidate(<<TextToken(laxText, FALSE, kTextScore + textLengthScore(laxText))>>)>>
       ELSE IF Len(text.full) <= kMaxTextLength /\ elements = <<targetElement>>
           THEN <<SelectorCandidate(<<TextToken(text.full, TRUE,
                                               kTextScore + textLengthScore(laxText) + kExactPenalty)>>)>>
       ELSE <<>>

\* _tryText with the omitTextFrom test of line 440 looking one way only: the
\* elements inside the omitTextFrom element are skipped, those around it are not.
tryText_AllowsContainers(ctx, root, targetElement) ==
    IF ctx.opts.omitInternalEngines THEN <<>>
    ELSE IF ctx.opts.omitTextFrom # Undef
            /\ isInsideScope(ctx.opts.omitTextFrom, targetElement)
        THEN <<>>
    ELSE tryTextWith(ctx, root, targetElement, getElementText(targetElement),
                     substring(getElementText(targetElement).lowerCase, 0, kMaxTextLength))

tryText(ctx, root, targetElement) ==
    IF ctx.opts.omitInternalEngines THEN <<>>
    ELSE IF ctx.opts.omitTextFrom # Undef
            /\ (isInsideScope(targetElement, ctx.opts.omitTextFrom)
                \/ isInsideScope(ctx.opts.omitTextFrom, targetElement))
        THEN <<>>
    ELSE tryTextWith(ctx, root, targetElement, getElementText(targetElement),
                     substring(getElementText(targetElement).lowerCase, 0, kMaxTextLength))

(***************************************************************************)
(* Structural fallback, lines 481-545.                                     *)
(***************************************************************************)
RECURSIVE narrowAll(_, _, _)
\* tryNarrow applied to each addition in turn; st = [token, filtered].
narrowAll(siblings, st, additions) ==
    IF additions = <<>> THEN st
    ELSE LET add == Head(additions)
             newToken ==
                 CASE add.kind = "id"    -> [st.token EXCEPT !.id = add.val]
                   [] add.kind = "class" -> [st.token EXCEPT !.classes = Append(@, add.cls)]
                   [] add.kind = "tag"   -> [st.token EXCEPT !.tag = add.cls]
             newFiltered == SelectSeq(siblings, LAMBDA e : matchesCompound(e, newToken))
             next == IF Len(st.filtered) <= 1 THEN st
                     ELSE IF Len(newFiltered) < Len(st.filtered)
                         THEN [token |-> newToken, filtered |-> newFiltered]
                     ELSE st
         IN narrowAll(siblings, next, Tail(additions))

\* The tokens tryNarrow is called with, lines 505-508: #id, each .class, the tag.
cssAdditions(element) ==
       (IF dom.el[element].id # E THEN <<[kind |-> "id", val |-> dom.el[element].id, cls |-> ""]>> ELSE <<>>)
    \o [i \in 1..Len(dom.el[element].cls) |-> [kind |-> "class", val |-> E, cls |-> dom.el[element].cls[i]]]
    \o <<[kind |-> "tag", val |-> E, cls |-> nodeName(element)]>>

\* Lines 510-514, st being the token and the filtered siblings after narrowing.
finishCSSToken(parent, element, st) ==
    LET token == IF st.token = NoCompound THEN [NoCompound EXCEPT !.tag = nodeName(element)] ELSE st.token
    IN IF Len(st.filtered) > 1
       THEN [token EXCEPT !.nthChild = 1 + IndexOf(children(parent), element)]
       ELSE token

generateCSSToken(parent, element) ==
    finishCSSToken(parent, element,
                   narrowAll(children(parent), [token |-> NoCompound, filtered |-> children(parent)],
                             cssAdditions(element)))

RECURSIVE cssPath(_, _)
\* The tokens of _generateCSSSelector, already reversed: from below root down to element.
cssPath(root, element) ==
    IF element = root \/ parentElementOrShadowHost(element) = Undef THEN <<>>
    ELSE Append(cssPath(root, parentElementOrShadowHost(element)),
                generateCSSToken(parentElementOrShadowHost(element), element))

generateCSSSelector(root, targetElement) ==
    IF root = Document /\ targetElement = 1
    THEN SingleCss([NoCompound EXCEPT !.tag = "HTML"])
    ELSE [path |-> TRUE, steps |-> cssPath(root, targetElement)]

lazyCSSSelector(root, targetElement) ==
    SelectorCandidate(<<CssToken(generateCSSSelector(root, targetElement), kCSSFallbackScore)>>)

(***************************************************************************)
(* _generateWithoutChaining, _generateWithChaining, _generateParent,       *)
(* _generateWithRelatives, lines 221-281.                                  *)
(***************************************************************************)
\* The candidates lines 273-277 offer to the new collection, in order.
generatorCandidates(ctx, root, targetElement, allowTextEngine) ==
       tryInternalEngines(ctx, root, targetElement)
    \o tryRole(ctx, root, targetElement)
    \o tryCSS(ctx, root, targetElement)
    \o (IF allowTextEngine THEN tryText(ctx, root, targetElement) ELSE <<>>)

\* Lines 278-279 offering the fallback whatever the generators gave.
withFallback_Always(tried, fallback) == Append(tried, fallback)

\* Lines 278-279: the fallback is offered when nothing tried gave a best.
withFallback(tried, fallback) ==
    IF offerAll(NoBest, tried) = NoBest THEN Append(tried, fallback) ELSE tried

\* All the candidates _generateWithoutChaining offers, in order.
offeredWithoutChaining(ctx, root, targetElement, allowTextEngine) ==
    withFallback(generatorCandidates(ctx, root, targetElement, allowTextEngine),
                 lazyCSSSelector(root, targetElement))

generateWithoutChaining(ctx, root, targetElement, allowTextEngine) ==
    offerAll(NoBest, offeredWithoutChaining(ctx, root, targetElement, allowTextEngine))

RECURSIVE properAncestorsBelow(_, _)
\* parentElementOrShadowHost(e), its parent, ... while defined and not root.
properAncestorsBelow(root, e) ==
    LET parent == parentElementOrShadowHost(e)
    IN IF parent = Undef \/ parent = root THEN <<>>
       ELSE <<parent>> \o properAncestorsBelow(root, parent)

RECURSIVE updateWithCollections(_, _)
\* updateWithCollection for each collection of a sequence, in order.
updateWithCollections(best, collections) ==
    IF collections = <<>> THEN best
    ELSE updateWithCollections(updateWithCollection(best, Head(collections)), Tail(collections))

RECURSIVE generateWithChaining(_, _, _, _)
RECURSIVE chainedViaParents(_, _, _, _, _)
\* Lines 261-264: for each parent, the parent's own chain followed by the target
\* as generated within that parent.
chainedViaParents(ctx, root, targetElement, allowTextEngine, parents) ==
    [i \in 1..Len(parents) |->
        chain(generateWithChaining(ctx, root, parents[i], FALSE),
              generateWithoutChaining(ctx, parents[i], targetElement, allowTextEngine))]

generateWithChaining(ctx, root, targetElement, allowTextEngine) ==
    updateWithCollections(NoBest,
        <<generateWithoutChaining(ctx, root, targetElement, allowTextEngine)>>
     \o chainedViaParents(ctx, root, targetElement, allowTextEngine,
                          properAncestorsBelow(root, targetElement)))

generateParent(from, to) ==
    updateWithCandidate(NoBest,
        SelectorCandidate(<<XPathToken(depthBelow(to, from), kXPathParentsScore)>>))

RECURSIVE shallowDescendants(_, _, _, _)
RECURSIVE shallowChildren(_, _, _, _)
RECURSIVE shallowChildren_OneMore(_, _, _, _)
shallowDescendants(root, depth, total, acc) ==
    IF depth > 0
    THEN shallowChildren(children(root), depth, total, Append(acc, root))
    ELSE Append(acc, root)

\* The loop over root.children testing `result.length <= total`.
shallowChildren_OneMore(kids, depth, total, acc) ==
    IF kids = <<>> THEN acc
    ELSE shallowChildren_OneMore(Tail(kids), depth, total,
                                 IF Len(acc) <= total
                                 THEN shallowDescendants(Head(kids), depth - 1, total, acc)
                                 ELSE acc)

\* for (const child of root.children) if (acc.length < total) shallowDescendants(child, ...)
shallowChildren(kids, depth, total, acc) ==
    IF kids = <<>> THEN acc
    ELSE shallowChildren(Tail(kids), depth, total,
                         IF Len(acc) < total
                         THEN shallowDescendants(Head(kids), depth - 1, total, acc)
                         ELSE acc)

\* collection = collection.chain(other) when the condition holds, lines 228-231.
chainIf(wanted, collection, other) == IF wanted THEN chain(collection, other) ELSE collection

\* Lines 227-231: the collection for one relative of one ancestor.
relativeCollection(ctx, root, targetElement, ancestor, relative) ==
    chainIf(ancestor # targetElement,
            chainIf(relative # ancestor,
                    generateWithChaining(ctx, root, relative, TRUE),
                    generateParent(relative, ancestor)),
            generateWithoutChaining(ctx, ancestor, targetElement, TRUE))

\* Lines 226-233: the collections for the relatives of one ancestor, in order.
relativeCollections(ctx, root, targetElement, ancestor, relatives) ==
    [i \in 1..Len(relatives) |-> relativeCollection(ctx, root, targetElement, ancestor, relatives[i])]

\* Lines 224-234: the same for every ancestor, the target first.
ancestorCollections(ctx, root, targetElement, ancestors) ==
    FlattenSeq([i \in 1..Len(ancestors) |->
        relativeCollections(ctx, root, targetElement, ancestors[i],
                            shallowDescendants(ancestors[i], kShallowDepth, kShallowTotal, <<>>))])

generateWithRelatives(ctx, root, targetElement) ==
    updateWithCollections(NoBest,
        ancestorCollections(ctx, root, targetElement,
                            <<targetElement>> \o properAncestorsBelow(root, targetElement)))

(***************************************************************************)
(* SelectorCandidate.selector, lines 627-645.  A selector string is kept   *)
(* as the sequence of its " >> "-separated parts, each part as the fields  *)
(* that its text carries.                                                  *)
(***************************************************************************)
Part(engine) ==
    [engine |-> engine, str |-> "", val |-> E, named |-> FALSE, exact |-> FALSE,
     index |-> 0, css |-> NoCss, hops |-> 0]

stringifyToken(token) ==
    CASE token.engine = "css"    -> [Part("css") EXCEPT !.css = token.css]
      [] token.engine = "nth"    -> [Part("nth") EXCEPT !.index = token.index]
      [] token.engine = "text"   -> [Part("internal:text") EXCEPT !.val = token.val, !.exact = token.exact]
      [] token.engine = "testId" -> [Part("internal:testid") EXCEPT !.val = token.val, !.exact = token.exact]
      [] token.engine = "xpath"  ->
            \* token.xpath.startsWith('..') ? token.xpath : `xpath=${token.xpath}`
            IF token.hops >= 1 THEN [Part("..") EXCEPT !.hops = token.hops]
            ELSE [Part("xpath") EXCEPT !.hops = token.hops]
      [] token.engine = "attr"   ->
            [Part("internal:attr") EXCEPT !.str = token.str, !.val = token.val, !.exact = token.exact]
      [] token.engine = "role"   ->
            \* the [name=...] clause is written only for a non-empty accessibleName
            IF token.named /\ token.val # E
            THEN [Part("internal:role") EXCEPT !.str = token.str, !.val = token.val,
                                               !.named = TRUE, !.exact = token.exact]
            ELSE [Part("internal:role") EXCEPT !.str = token.str]

selector(candidate) == [i \in 1..Len(candidate.tokens) |-> stringifyToken(candidate.tokens[i])]

ScopeSelector == <<[Part("css") EXCEPT !.css = SingleCss([NoCompound EXCEPT !.tag = ":scope"])]>>

(***************************************************************************)
(* Querying a selector: injectedScript.querySelectorAll over the parts,    *)
(* the role part by RoleEngine.queryAll (roleSelectorEngine.ts:56-121).    *)
(***************************************************************************)
\* The marker of a query that threw (no element list holds a negative number).
Threw == <<-2>>

\* The element :scope stands for.
scopeElement(scope) == IF scope = Document THEN 1 ELSE scope

RECURSIVE matchesPath(_, _, _)
\* e matches "> s1 > ... > sn" below scope.
matchesPath(scope, e, steps) ==
    IF steps = <<>> THEN e = scopeElement(scope)
    ELSE /\ e # Document
         /\ e # scopeElement(scope)
         /\ matchesStep(e, steps[Len(steps)])
         /\ dom.parent[e] # Document
         /\ matchesPath(scope, dom.parent[e], SubSeq(steps, 1, Len(steps) - 1))

\* elementMatchesText(...) === 'self'
matchesTextSelf(e, Matcher(_)) ==
    /\ ~shouldSkipForTextMatching(e)
    /\ Matcher(e)
    /\ ~\E i \in 1..Len(children(e)) : Matcher(children(e)[i])

laxTextMatches(e, text) ==
    includes(toLowerCase(normalizeWhiteSpace(elementTextFull(e))), toLowerCase(normalizeWhiteSpace(text)))

strictFullTextMatches(e, text) ==
    normalizeWhiteSpace(elementTextFull(e)) = normalizeWhiteSpace(text)

(***************************************************************************)
(* RoleEngine.queryAll, roleSelectorEngine.ts:23-121.  A parsed selector   *)
(* is [name, attributes]; an attribute is [jsonPath, op, value] and a      *)
(* value carries its JavaScript type.                                      *)
(***************************************************************************)
Undefined == [type |-> "undefined", bool |-> FALSE, num |-> 0, str |-> E]
BooleanValue(b) == [Undefined EXCEPT !.type = "boolean", !.bool = b]
NumberValue(n) == [Undefined EXCEPT !.type = "number", !.num = n]
StringValue(s) == [Undefined EXCEPT !.type = "string", !.str = s]

Attribute(jsonPath, op, value) == [jsonPath |-> jsonPath, op |-> op, value |-> value]

\* String.prototype.toLowerCase on the attribute and role names in use.
lowerName(name) ==
    CASE name = "Level"  -> "level"
      [] name = "BUTTON" -> "button"
      [] OTHER           -> name

kKnownAttributes == {"selected", "checked", "pressed", "expanded", "level", "name", "hidden"}

\* Lines 61-69: the message of the error thrown for the attribute, "" for none.
attributeError(attr) ==
    IF Len(attr.jsonPath) > 1 \/ lowerName(attr.jsonPath[1]) \notin kKnownAttributes
        THEN "Unknown attribute"
    ELSE IF lowerName(attr.jsonPath[1]) = "level" /\ attr.value.type # "number"
        THEN "\"level\" must be a number"
    ELSE IF lowerName(attr.jsonPath[1]) # "level" /\ attr.value.type # "boolean"
        THEN "must be a boolean"
    ELSE IF attr.op # "<truthy>" /\ attr.op # "="
        THEN "Unsupported attribute matcher"
    ELSE ""

\* parsed.attributes.map(...): the first error thrown, "" when all pass.
RECURSIVE attributesError(_)
attributesError(attributes) ==
    IF attributes = <<>> THEN ""
    ELSE IF attributeError(Head(attributes)) # "" THEN attributeError(Head(attributes))
    ELSE attributesError(Tail(attributes))

\* getAriaBoolean(element.getAttribute(aria)), roleUtils.ts:189-191; the
\* documents here carry none of these aria-* attributes.
getAriaBoolean(e, aria) == Undefined

\* kAttributeGetters[name](element), lines 23-54.
attributeGetter(name, e) ==
    CASE name = "selected" -> getAriaBoolean(e, "aria-selected")
      [] name = "checked"  ->
            IF nodeName(e) = "INPUT" THEN BooleanValue(FALSE) ELSE getAriaBoolean(e, "aria-checked")
      [] name = "pressed"  -> getAriaBoolean(e, "aria-pressed")
      [] name = "expanded" -> getAriaBoolean(e, "aria-expanded")
      [] name = "level"    -> IF nodeName(e) = "H2" THEN NumberValue(2) ELSE Undefined

\* isElementHiddenForRole, roleUtils.ts:197-218, for documents without styles
\* or aria-hidden that hide anything.
isElementHiddenForRole(e) == nodeName(e) \in {"STYLE", "SCRIPT", "NOSCRIPT", "TEMPLATE"}

\* The last value of the attribute called name, Undefined when there is none
\* (includeHidden and accessibleName of lines 78-88).
RECURSIVE lastValueOf(_, _, _)
lastValueOf(attributes, name, value) ==
    IF attributes = <<>> THEN value
    ELSE lastValueOf(Tail(attributes), name,
                     IF lowerName(Head(attributes).jsonPath[1]) = name
                     THEN Head(attributes).value ELSE value)

\* match(element), lines 75-104: whether the element is pushed to the result.
roleMatch(role, attributes, e) ==
    /\ getAriaRole(e) = role
    /\ \A i \in 1..Len(attributes) :
           lowerName(attributes[i].jsonPath[1]) \in {"hidden", "name"}
           \/ attributes[i].value = attributeGetter(lowerName(attributes[i].jsonPath[1]), e)
    /\ (lastValueOf(attributes, "hidden", BooleanValue(FALSE)).bool \/ ~isElementHiddenForRole(e))
    /\ (lastValueOf(attributes, "name", Undefined) = Undefined
        \/ lastValueOf(attributes, "name", Undefined) = StringValue(accessibleNameOf(e)))

\* What a query did: the error it threw, the elements it returned and the
\* number of elements match() was called for.
NoQueried == [threw |-> "", elements |-> <<>>, matched |-> 0]

\* RoleEngine.queryAll(scope, selector), after parseComponentSelector.
roleQueryAll(scope, parsedSelector) ==
    IF attributesError(parsedSelector.attributes) # ""
    THEN [NoQueried EXCEPT !.threw = attributesError(parsedSelector.attributes)]
    ELSE [threw |-> "",
          elements |-> SelectSeq(queryAll(scope),
                          LAMBDA e : roleMatch(lowerName(parsedSelector.name), parsedSelector.attributes, e)),
          matched |-> Len(queryAll(scope))]

NoParsed == [name |-> "", attributes |-> <<>>]

\* parseComponentSelector of the role part generateSelector renders:
\* role[name="..."] gives one attribute with a string value.
parseRolePart(part) ==
    [name |-> part.str,
     attributes |-> IF part.named THEN <<Attribute(<<"name">>, "=", StringValue(part.val))>>
                    ELSE <<>>]

\* The role part of a selector queried: the elements, or Threw.
roleEngineQueryAll(scope, part) ==
    IF roleQueryAll(scope, parseRolePart(part)).threw # "" THEN Threw
    ELSE roleQueryAll(scope, parseRolePart(part)).elements

\* One part queried from one scope element: a list of elements, or Threw.
queryEngineAll(testIdAttributeName, scope, part) ==
    CASE part.engine = "css" ->
            IF part.css.path
            THEN (IF part.css.steps = <<>> THEN Threw
                  ELSE SelectSeq(queryAll(scope), LAMBDA e : matchesPath(scope, e, part.css.steps)))
            ELSE IF part.css.steps[1].tag = ":scope" THEN <<scopeElement(scope)>>
            ELSE queryCSS(scope, part.css.steps[1])
      [] part.engine = "internal:text" ->
            SelectSeq(queryAll(scope), LAMBDA e :
                matchesTextSelf(e, LAMBDA x : IF part.exact THEN strictFullTextMatches(x, part.val)
                                                ELSE laxTextMatches(x, part.val)))
      [] part.engine = "internal:testid" ->
            SelectSeq(queryAll(scope), LAMBDA e : getAttribute(e, testIdAttributeName) = part.val)
      [] part.engine = "internal:attr" ->
            SelectSeq(queryAll(scope), LAMBDA e :
                IF part.exact THEN getAttribute(e, part.str) = part.val
                ELSE getAttribute(e, part.str) # E
                     /\ includes(toLowerCase(getAttribute(e, part.str)), toLowerCase(part.val)))
      [] part.engine = "internal:role" -> roleEngineQueryAll(scope, part)
      [] part.engine = ".." ->
            LET up[i \in 0..part.hops] ==
                    IF i = 0 THEN scope
                    ELSE IF up[i - 1] \in {Undef, Document} THEN Undef
                    ELSE parentElementOrShadowHost(up[i - 1])
            IN IF up[part.hops] = Undef THEN <<>> ELSE <<up[part.hops]>>
      [] OTHER -> Threw

RECURSIVE addAll(_, _)
\* Set insertion order: append the elements not yet present.
addAll(acc, elements) ==
    IF elements = <<>> THEN acc
    ELSE addAll(IF InSeq(Head(elements), acc) THEN acc ELSE Append(acc, Head(elements)), Tail(elements))

\* nth=<index>; -1 is the last one.
queryNth(roots, index) ==
    IF index = -1 THEN (IF roots = <<>> THEN <<>> ELSE <<roots[Len(roots)]>>)
    ELSE IF index >= 0 /\ index < Len(roots) THEN <<roots[index + 1]>>
    ELSE <<>>

\* One part applied to the current roots; each[i] is what the part's engine finds below roots[i].
queryStep(roots, part, each) ==
    IF part.engine = "nth" THEN queryNth(roots, part.index)
    ELSE IF \E i \in 1..Len(roots) : each[i] = Threw THEN Threw
    ELSE addAll(<<>>, FlattenSeq(each))

RECURSIVE queryParts(_, _, _)
queryParts(testIdAttributeName, roots, parts) ==
    IF parts = <<>> \/ roots = Threw THEN roots
    ELSE queryParts(testIdAttributeName,
                    queryStep(roots, Head(parts),
                              [i \in 1..Len(roots) |->
                                  queryEngineAll(testIdAttributeName, roots[i], Head(parts))]),
                    Tail(parts))

\* injectedScript.querySelectorAll(injectedScript.parseSelector(selector), root)
querySelectorAll(testIdAttributeName, sel, root) == queryParts(testIdAttributeName, <<root>>, sel)

(***************************************************************************)
(* generateSelector, lines 138-174, and _retargetForAction, lines 547-554. *)
(***************************************************************************)
RECURSIVE retargetForAction(_)
retargetForAction(element) ==
    IF element = Undef THEN Undef
    ELSE IF getAriaRole(element) \in {"button", "checkbox", "spinbutton", "radio", "slider", "listbox",
                                      "combobox", "searchbox", "textbox", "link"}
        THEN element
    ELSE retargetForAction(parentElementOrShadowHost(element))

\* Lines 139-141 keeping the caller's omitTextFrom on a first call: the target is
\* omitted only once retargetForText is already set.
optionsUsed_KeepsOmitTextFrom(targetElement, opts) ==
    [opts EXCEPT !.retargetForText = TRUE,
                 !.omitTextFrom = IF opts.retargetForText THEN targetElement ELSE opts.omitTextFrom]

\* Lines 139-141: the option values the rest of the call reads.
optionsUsed(targetElement, opts) ==
    [opts EXCEPT !.retargetForText = TRUE, !.omitTextFrom = targetElement]

\* Line 146.
retargeted(targetElement, opts) ==
    IF opts.retargetForAction /\ retargetForAction(targetElement) # Undef
    THEN retargetForAction(targetElement)
    ELSE targetElement

\* Line 162: `this._getElementText(parent) === text` compares the two cache
\* entries, objects created per element, by reference.
sameTextEntry(parent, targetElement) == parent = targetElement

\* Line 147.
rootOf(opts) == IF opts.root = Undef THEN Document ELSE opts.root

\* What the generators read: the options and the tables of _preprocessTree (line 151).
GenerationContext(root, targetElement, opts) ==
    [opts |-> opts, tables |-> preprocessTree(root, targetElement, opts)]

\* Lines 160-165: the exploration anchored at each parent whose text entry is the target's.
retargetedForText(ctx, root, parents) ==
    [i \in 1..Len(parents) |-> generateWithRelatives(ctx, root, parents[i])]

\* Lines 155-165: the collection `result` that generateSelector ends up with.
bestCollection(ctx, root, targetElement) ==
    updateWithCollections(NoBest,
        <<generateWithRelatives(ctx, root, targetElement)>>
     \o (IF ctx.opts.retargetForText
         THEN retargetedForText(ctx, root,
                  SelectSeq(properAncestorsBelow(root, targetElement),
                            LAMBDA parent : sameTextEntry(parent, targetElement)))
         ELSE <<>>))

\* Line 173 returning the target itself as `elements` instead of the query result.
returnQueried_ReturnsTarget(targetElement, sel, elements) ==
    IF elements = Threw
    THEN [threw |-> "querySelectorAll threw", selector |-> <<>>, elements |-> <<>>]
    ELSE [threw |-> "", selector |-> sel, elements |-> <<targetElement>>]

\* Line 173: { selector, elements }, unless the query threw.
returnQueried(targetElement, sel, elements) ==
    IF elements = Threw
    THEN [threw |-> "querySelectorAll threw", selector |-> <<>>, elements |-> <<>>]
    ELSE [threw |-> "", selector |-> sel, elements |-> elements]

\* Lines 172-173: result.best()!.selector(), then the query on the root.
returnBest(opts, root, targetElement, best) ==
    IF best = NoBest
    THEN [threw |-> "result.best() is undefined", selector |-> <<>>, elements |-> <<>>]
    ELSE returnQueried(targetElement, selector(best),
                       querySelectorAll(opts.testIdAttributeName, selector(best), root))

\* Lines 148-173, for the retargeted element and the options as written by lines 139-141.
generateFor(targetElement, opts, root) ==
    IF targetElement = opts.root
    THEN [threw |-> "", selector |-> ScopeSelector, elements |-> <<targetElement>>]
    ELSE returnBest(opts, root, targetElement,
                    bestCollection(GenerationContext(root, targetElement, opts), root, targetElement))

\* What the call returns: { selector, elements }, or what made it throw (threw # "").
generateSelector(targetElement0, options0) ==
    generateFor(retargeted(targetElement0, optionsUsed(targetElement0, options0)),
                optionsUsed(targetElement0, options0),
                rootOf(optionsUsed(targetElement0, options0)))

(***************************************************************************)
(* Inputs: documents, targets and options.                                 *)
(***************************************************************************)
MaxElements == 2     \* elements below the document element

Elem(tag) ==
    [tag |-> tag, testid |-> E, datatest |-> E, id |-> E, cls |-> <<>>, title |-> E,
     placeholder |-> E, alt |-> E, type |-> E, name |-> E, ariaLabel |-> E, text |-> E]

Html == Elem("HTML")

\* The kinds of element a document is built from.
Kinds ==
    { Elem("DIV"),
      [Elem("DIV") EXCEPT !.cls = <<"row">>, !.text = <<"a">>],
      [Elem("BUTTON") EXCEPT !.testid = <<"x">>, !.cls = <<"row">>, !.text = <<"b">>],
      [Elem("H2") EXCEPT !.text = <<"A", "b">>],
      [Elem("BUTTON") EXCEPT !.ariaLabel = <<"a">>] }

RECURSIVE ancestorsOrSelf(_, _)
\* In a parent vector: e and its ancestors, the Document included.
ancestorsOrSelf(parent, e) ==
    IF e = Document THEN {Document} ELSE {e} \cup ancestorsOrSelf(parent, parent[e])

\* Parent vectors of n elements numbered in document order: element 1 is the
\* document element, and each later element hangs below the previous one or
\* below one of its ancestors.
ParentVectors(n) ==
    {p \in [1..n -> 0..(n - 1)] :
        /\ p[1] = Document
        /\ \A i \in 2..n : p[i] # Document /\ p[i] \in ancestorsOrSelf(p, i - 1)}

Documents ==
    UNION {{[parent |-> p, el |-> <<Html>> \o k] : p \in ParentVectors(n + 1), k \in [1..n -> Kinds]}
           : n \in 1..MaxElements}

Options(retargetAction, omitInternal, root) ==
    [testIdAttributeName |-> "data-testid", retargetForAction |-> retargetAction,
     retargetForText |-> FALSE, omitInternalEngines |-> omitInternal,
     omitTextFrom |-> Undef, root |-> root]

OptionProfiles ==
    {Options(FALSE, FALSE, Undef), Options(TRUE, FALSE, Undef),
     Options(FALSE, TRUE, Undef), Options(FALSE, FALSE, 1)}

NoResult == [threw |-> "", selector |-> <<>>, elements |-> <<>>]

InitGen ==
    /\ dom \in Documents
    /\ target \in 1..Len(dom.parent)
    /\ options \in OptionProfiles
    /\ pc = "start"
    /\ result = NoResult
    /\ result2 = NoResult
    /\ coll = <<>>
    /\ offered = <<>>
    /\ cands = {}
    /\ parsed = NoParsed
    /\ queried = NoQueried
    /\ mock = NoMock
    /\ chan = NoChan
    /\ runner = NoRunner
    /\ memo = NoMemo
    /\ pointer = NoPointer

\* generateSelector(injectedScript, targetElement, options), lines 32-42: the
\* options object is the caller's and keeps what the call wrote to it.
Call ==
    /\ pc = "start"
    /\ result' = generateSelector(target, options)
    /\ options' = optionsUsed(target, options)
    /\ pc' = "called"
    /\ UNCHANGED <<dom, target, result2, coll, offered, cands>>
    /\ UNCHANGED <<roleVars, mock, chan, runner, memo, pointer>>

\* The same call once more, on the unmutated DOM.
CallAgain ==
    /\ pc = "called"
    /\ result2' = generateSelector(target, options)
    /\ options' = optionsUsed(target, options)
    /\ pc' = "called2"
    /\ UNCHANGED <<dom, target, result, coll, offered, cands>>
    /\ UNCHANGED <<roleVars, mock, chan, runner, memo, pointer>>

Next == Call \/ CallAgain

Spec == InitGen /\ [][Next]_vars

(***************************************************************************)
(* The candidate algebra on its own: candidates are constructed and        *)
(* appended to, offered to collections, and collections are merged,        *)
(* chained and filled by _generateWithoutChaining.                         *)
(***************************************************************************)
MaxCands == 2          \* SelectorCandidate objects alive at once
MaxTokens == 3         \* tokens of one candidate
MaxCollections == 3    \* SelectorCandidateCollection objects
MaxOffers == 2         \* offers made to one collection by hand
MaxIndex == 4          \* largest index given to appendNth
MaxNthIndex == 9       \* largest index the positional score is examined for

\* <html><input type="t" name="n"></html>: the type and the name CSS candidates tie.
CollDom ==
    [parent |-> <<Document, 1>>,
     el |-> <<Html, [Elem("INPUT") EXCEPT !.type = <<"t">>, !.name = <<"n">>]>>]

\* Tokens as the generators build them for that input.
TokenPool ==
    { RoleToken("textbox", kRoleWithoutNameScore),
      CssToken(SingleCss(Compound("INPUT", E, <<>>, "type", <<"t">>, 0)), kCSSInputTypeNameScore),
      CssToken(SingleCss(Compound("INPUT", E, <<>>, "name", <<"n">>, 0)), kCSSInputTypeNameScore) }

\* What is remembered of a collection: the candidate chain() gave it, the
\* collections it was chained from, and the candidates offered to it since.
NoHistory == [seed |-> NoBest, from |-> <<>>, seq |-> <<>>]

InitColl ==
    /\ dom = CollDom
    /\ target = Len(CollDom.parent)
    /\ options = Options(FALSE, FALSE, Undef)
    /\ pc = "collections"
    /\ result = NoResult
    /\ result2 = NoResult
    /\ coll = <<>>
    /\ offered = <<>>
    /\ cands = {}
    /\ parsed = NoParsed
    /\ queried = NoQueried
    /\ mock = NoMock
    /\ chan = NoChan
    /\ runner = NoRunner
    /\ memo = NoMemo
    /\ pointer = NoPointer

\* new SelectorCandidate([token])
NewCandidate ==
    \E token \in TokenPool :
        /\ Cardinality(cands \cup {SelectorCandidate(<<token>>)}) <= MaxCands
        /\ cands' = cands \cup {SelectorCandidate(<<token>>)}
        /\ UNCHANGED <<dom, target, options, pc, result, result2, coll, offered>>
        /\ UNCHANGED <<roleVars, mock, chan, runner, memo, pointer>>

\* candidate.appendNth(index, total)
AppendNth ==
    \E c \in cands : \E index \in {0, MaxIndex} :
        /\ Len(c.tokens) < MaxTokens
        /\ Cardinality(cands \cup {appendNth(c, index, index + 1)}) <= MaxCands
        /\ cands' = cands \cup {appendNth(c, index, index + 1)}
        /\ UNCHANGED <<dom, target, options, pc, result, result2, coll, offered>>
        /\ UNCHANGED <<roleVars, mock, chan, runner, memo, pointer>>

\* candidate.append(other)
AppendCandidate ==
    \E c \in cands : \E other \in cands :
        /\ Len(c.tokens) + Len(other.tokens) <= MaxTokens
        /\ Cardinality(cands \cup {append(c, other)}) <= MaxCands
        /\ cands' = cands \cup {append(c, other)}
        /\ UNCHANGED <<dom, target, options, pc, result, result2, coll, offered>>
        /\ UNCHANGED <<roleVars, mock, chan, runner, memo, pointer>>

\* new SelectorCandidateCollection()
NewCollection ==
    /\ Len(coll) < MaxCollections
    /\ coll' = Append(coll, NoBest)
    /\ offered' = Append(offered, NoHistory)
    /\ UNCHANGED <<dom, target, options, pc, result, result2, cands>>
    /\ UNCHANGED <<roleVars, mock, chan, runner, memo, pointer>>

\* collection.updateWithCandidate(candidate)
UpdateWithCandidate ==
    \E i \in 1..Len(coll) : \E c \in cands :
        /\ Len(offered[i].seq) < MaxOffers
        /\ coll' = [coll EXCEPT ![i] = updateWithCandidate(@, c)]
        /\ offered' = [offered EXCEPT ![i].seq = Append(@, c)]
        /\ UNCHANGED <<dom, target, options, pc, result, result2, cands>>
        /\ UNCHANGED <<roleVars, mock, chan, runner, memo, pointer>>

\* collection.updateWithCollection(other): other's _best, when it has one, is offered.
UpdateWithCollection ==
    \E i \in 1..Len(coll) : \E j \in 1..Len(coll) :
        /\ Len(offered[i].seq) < MaxOffers
        /\ coll' = [coll EXCEPT ![i] = updateWithCollection(@, coll[j])]
        /\ offered' = IF coll[j] # NoBest
                      THEN [offered EXCEPT ![i].seq = Append(@, coll[j])]
                      ELSE offered
        /\ UNCHANGED <<dom, target, options, pc, result, result2, cands>>
        /\ UNCHANGED <<roleVars, mock, chan, runner, memo, pointer>>

\* collection.chain(other): a new collection, its _best (if any) a new candidate.
Chain ==
    \E i \in 1..Len(coll) : \E j \in 1..Len(coll) :
        /\ Len(coll) < MaxCollections
        /\ Len(coll[i].tokens) + Len(coll[j].tokens) <= MaxTokens
        /\ coll' = Append(coll, chain(coll[i], coll[j]))
        /\ offered' = Append(offered,
               [NoHistory EXCEPT !.seed = chain(coll[i], coll[j]), !.from = <<i, j>>])
        /\ UNCHANGED <<dom, target, options, pc, result, result2, cands>>
        /\ UNCHANGED <<roleVars, mock, chan, runner, memo, pointer>>

\* The context generateSelector builds (lines 139-150) before it generates, for
\* a caller that sets omitInternalEngines or not.
GenCtx(omitInternalEngines) ==
    GenerationContext(Document, target,
        optionsUsed(target, [options EXCEPT !.omitInternalEngines = omitInternalEngines]))

\* _generateWithoutChaining(root, targetElement, options, true): a new collection
\* that the generators' candidates are offered to, in their order.
Generate ==
    \E omitInternalEngines \in BOOLEAN :
        /\ Len(coll) < MaxCollections
        /\ coll' = Append(coll, generateWithoutChaining(GenCtx(omitInternalEngines), Document, target, TRUE))
        /\ offered' = Append(offered,
               [NoHistory EXCEPT
                   !.seq = offeredWithoutChaining(GenCtx(omitInternalEngines), Document, target, TRUE)])
        /\ UNCHANGED <<dom, target, options, pc, result, result2, cands>>
        /\ UNCHANGED <<roleVars, mock, chan, runner, memo, pointer>>

NextColl ==
    \/ NewCandidate
    \/ AppendNth
    \/ AppendCandidate
    \/ NewCollection
    \/ UpdateWithCandidate
    \/ UpdateWithCollection
    \/ Chain
    \/ Generate

SpecColl == InitColl /\ [][NextColl]_vars

(***************************************************************************)
(* Claims.                                                                 *)
(***************************************************************************)
Returned(r) == r.threw = ""

\* The effective target and root of the call that produced `result`.
EffTarget == retargeted(target, options)
EffRoot == rootOf(options)

\* C1: for every target inside the scope, generateSelector returns normally
\* with a non-empty selector: it never throws and never returns empty.
C1_ReturnsNonEmpty ==
    (pc # "start" /\ isInsideScope(EffRoot, target))
        => (Returned(result) /\ result.selector # <<>>)

\* C1, the part about the collection: result.best() is never undefined.
C1_BestAlwaysPresent ==
    (pc # "start" /\ isInsideScope(EffRoot, target))
        => result.threw # "result.best() is undefined"

\* The generation context of the call that produced `result` (options holds
\* what the call wrote to it).
CallCtx == GenerationContext(EffRoot, EffTarget, options)

\* The call went through the generator proper, for the element it was given.
Generated ==
    /\ pc # "start"
    /\ EffTarget = target
    /\ target # options.root
    /\ isInsideScope(EffRoot, target)

TestIdPart(value) == [Part("internal:testid") EXCEPT !.val = value, !.exact = TRUE]

\* The target carries the configured test id, and no other element in the scope does.
HasUniqueTestId ==
    /\ getAttribute(target, options.testIdAttributeName) # E
    /\ \A e \in Elements :
          (e # target /\ isInsideScope(EffRoot, e))
              => getAttribute(e, options.testIdAttributeName)
                    # getAttribute(target, options.testIdAttributeName)

\* C2: a target whose configured test-id value no other element in the scope
\* carries gets exactly one test-id token for that value as its selector.
C2_UniqueTestIdWins ==
    (Generated /\ ~options.omitInternalEngines /\ HasUniqueTestId)
        => (Returned(result)
            /\ result.selector = <<TestIdPart(getAttribute(target, options.testIdAttributeName))>>)

\* The siblings of the target that are identical to it (tag, attributes, text;
\* no children), the target included, in document order.
IdenticalSiblings ==
    SelectSeq(children(dom.parent[target]),
              LAMBDA e : dom.el[e] = dom.el[target] /\ children(e) = <<>>)

\* The selector holds the position k: as an nth part with index k or, in the
\* structural path, as the :nth-child of the target among its parent's children.
HasPositionalIndex(sel, k) ==
    \E i \in 1..Len(sel) :
        \/ sel[i].engine = "nth" /\ sel[i].index = k
        \/ /\ sel[i].engine = "css"
           /\ sel[i].css.steps # <<>>
           /\ sel[i].css.steps[Len(sel[i].css.steps)].nthChild
                = 1 + IndexOf(children(dom.parent[target]), target)

\* C3: among N >= 2 identical siblings, the selector of the k-th (0-based)
\* contains the positional index k and matches only that sibling.
C3_IdenticalSiblingsNth ==
    (Generated /\ children(target) = <<>> /\ Len(IdenticalSiblings) >= 2)
        => (/\ Returned(result)
            /\ HasPositionalIndex(result.selector, IndexOf(IdenticalSiblings, target))
            /\ result.elements = <<target>>)

\* C4: the returned elements are what querying the scope root with the
\* returned selector gives, the target being the scope root included.
C4_ElementsAreTheQueryResult ==
    (pc # "start" /\ Returned(result))
        => result.elements = querySelectorAll(options.testIdAttributeName, result.selector, EffRoot)

C4_Witness ==
    /\ pc = "called"
    /\ Returned(result)
    /\ target = options.root
    /\ result.selector = ScopeSelector
    /\ result.elements = <<target>>

\* Number of places at which sub occurs in text, overlapping ones included.
Occurrences(text, sub) == Cardinality({i \in 1..Len(text) : OccursAt(text, sub, i)})

\* The lax text of e is unique below root: it occurs once in the root's text
\* and in no child of e.
LaxTextUnique(root, e) ==
    LET lax == getElementText(e).lowerCase
    IN /\ lax # E
       /\ Occurrences(getElementText(rootTextElement(root)).lowerCase, lax) = 1
       /\ \A c \in Elements : dom.parent[c] = e => ~includes(getElementText(c).lowerCase, lax)

TextAllowed(e) ==
    /\ ~options.omitInternalEngines
    /\ options.omitTextFrom = Undef
        \/ ~(isInsideScope(e, options.omitTextFrom) \/ isInsideScope(options.omitTextFrom, e))

IsLaxTextCandidate(c, e) ==
    /\ Len(c.tokens) = 1
    /\ c.tokens[1].engine = "text"
    /\ ~c.tokens[1].exact
    /\ c.tokens[1].val = getElementText(e).lowerCase

ScopesOf(e) == {Document} \cup {r \in Elements : r # e /\ contains(r, e)}

\* C6: for an element whose lax text match is unique in the scope, the text
\* generator offers the lax candidate (when it runs at all) and never an exact one.
C6_LaxUniqueNoExact ==
    pc # "start" =>
        \A e \in Elements : \A root \in ScopesOf(e) :
            LaxTextUnique(root, e) =>
                LET got == tryText(CallCtx, root, e)
                IN /\ \A i \in 1..Len(got) : ~got[i].tokens[1].exact
                   /\ TextAllowed(e) => (Len(got) = 1 /\ IsLaxTextCandidate(got[1], e))

C6_Witness ==
    /\ pc = "called"
    /\ \E e \in Elements :
          /\ LaxTextUnique(Document, e)
          /\ TextAllowed(e)
          /\ Len(tryText(CallCtx, Document, e)) = 1
          /\ IsLaxTextCandidate(tryText(CallCtx, Document, e)[1], e)
          \* an exact candidate would have been available too
          /\ Get(CallCtx.tables.textToElements, getElementText(e).full) = <<e>>

\* C7: a target whose text occurs once in the scope's text, and in none of its
\* descendants, gets the lax text form of that text as its selector.
C7_LoneTextGetsLaxText ==
    (Generated /\ ~options.omitInternalEngines /\ LaxTextUnique(EffRoot, target))
        => (Returned(result)
            /\ result.selector
                = <<[Part("internal:text") EXCEPT !.val = getElementText(target).lowerCase]>>)

\* What a collection has been given: the _best it was created with, then its offers.
Given(i) ==
    (IF offered[i].seed # NoBest THEN <<offered[i].seed>> ELSE <<>>) \o offered[i].seq

\* C8: the score of a collection's best() is at most the score of every
\* candidate ever offered to it through updateWithCandidate or updateWithCollection.
C8_BestAtMostEveryOffer ==
    \A i \in 1..Len(coll) : \A k \in 1..Len(offered[i].seq) :
        coll[i] # NoBest /\ coll[i].score <= offered[i].seq[k].score

C8_Witness ==
    \E i \in 1..Len(coll) :
        /\ Len(offered[i].seq) = MaxOffers
        /\ offered[i].seq[1].score > offered[i].seq[MaxOffers].score
        /\ coll[i] = offered[i].seq[MaxOffers]
        /\ coll[i] # offered[i].seq[1]

\* The first candidate of a non-empty sequence that no other one beats: all before
\* it score strictly higher, none after it scores lower.
FirstLowest(seq) ==
    seq[CHOOSE k \in 1..Len(seq) :
            \A m \in 1..Len(seq) :
                /\ m < k => seq[m].score > seq[k].score
                /\ m > k => seq[m].score >= seq[k].score]

\* C9: a collection's best changes only for a strictly lower score, so it is
\* always the first of the lowest-scored candidates it was given; for a
\* collection filled by the generators that is the first in generator order.
C9_FirstLowestIsKept ==
    \A i \in 1..Len(coll) :
        coll[i] = IF Given(i) = <<>> THEN NoBest ELSE FirstLowest(Given(i))

C9_Witness ==
    \E i \in 1..Len(coll) : \E k \in 1..Len(offered[i].seq) : \E m \in 1..Len(offered[i].seq) :
        /\ k < m
        /\ offered[i].seq[k].score = offered[i].seq[m].score
        /\ offered[i].seq[k] # offered[i].seq[m]
        /\ coll[i] = offered[i].seq[k]

\* Every candidate the history knows: constructed by hand, made by chain, held
\* as a best, or offered.
EveryCandidate ==
    (cands
        \cup ({coll[i] : i \in 1..Len(coll)} \ {NoBest})
        \cup ({offered[i].seed : i \in 1..Len(offered)} \ {NoBest}))
        \cup UNION {{offered[i].seq[k] : k \in 1..Len(offered[i].seq)} : i \in 1..Len(offered)}

TokenScores(tokens) ==
    LET sum[n \in 0..Len(tokens)] == IF n = 0 THEN 0 ELSE sum[n - 1] + tokens[n].score
    IN sum[Len(tokens)]

\* C10: every candidate ever constructed has score = the sum of its tokens'
\* scores + kChainScorePenalty * (token count - 1)^2.
C10_ScoreIsSumPlusPenalty ==
    \A c \in EveryCandidate :
        c.score = TokenScores(c.tokens)
                    + kChainScorePenalty * (Len(c.tokens) - 1) * (Len(c.tokens) - 1)

C10_Witness ==
    \E i \in 1..Len(coll) :
        /\ offered[i].seed # NoBest
        /\ coll[i] = offered[i].seed
        /\ Len(coll[i].tokens) = MaxTokens
        /\ \E n \in 1..MaxTokens : coll[i].tokens[n].engine = "nth"
        /\ coll[i] \notin cands

\* The step made a collection by a.chain(b), a and b the collections at i and j.
ChainedFrom(i, j) ==
    /\ Len(coll') = Len(coll) + 1
    /\ offered'[Len(coll')].from = <<i, j>>

\* C11: a.chain(b) returns a new collection whose best is the tokens of a.best()
\* followed by the tokens of b.best(), and which has no best when a or b has
\* none; a, b, the other collections and the candidates are left as they were.
C11_ChainConcatenates ==
    [][\A i, j \in 1..Len(coll) :
          ChainedFrom(i, j) =>
              /\ IF coll[i] = NoBest \/ coll[j] = NoBest
                 THEN coll'[Len(coll')] = NoBest
                 ELSE /\ coll'[Len(coll')] # NoBest
                      /\ coll'[Len(coll')].tokens = coll[i].tokens \o coll[j].tokens
              /\ SubSeq(coll', 1, Len(coll)) = coll
              /\ cands' = cands]_vars

\* A collection chained from two others that both had a best.
C11_Witness ==
    \E k \in 1..Len(coll) :
        /\ offered[k].from # <<>>
        /\ offered[k].from[1] # offered[k].from[2]
        /\ coll[offered[k].from[1]] # NoBest
        /\ coll[offered[k].from[2]] # NoBest
        /\ coll[k].tokens
             = coll[offered[k].from[1]].tokens \o coll[offered[k].from[2]].tokens
        /\ Len(coll[k].tokens) >= 2

\* The token appendNth(index, total) puts at the end of candidate c.
NthTokenOf(c, index) == appendNth(c, index, index + 1).tokens[Len(c.tokens) + 1]

\* Every (root, target) pair the orchestration calls the generators with: the
\* target strictly inside the root (lines 224-231, 262-264).
GeneratorCalls ==
    {call \in ({EffRoot} \cup Elements) \X Elements :
        /\ call[1] # call[2]
        /\ isInsideScope(call[1], call[2])
        /\ call[1] = EffRoot \/ isInsideScope(EffRoot, call[1])}

\* The nth tokens of the candidates the generators offer in those calls.
GeneratorNthTokens ==
    UNION {UNION {{c.tokens[i] : i \in {k \in 1..Len(c.tokens) : c.tokens[k].engine = "nth"}} :
                    c \in {s[n] : n \in 1..Len(s)}} :
           s \in {offeredWithoutChaining(CallCtx, call[1], call[2], allow) :
                     call \in GeneratorCalls, allow \in BOOLEAN}}

\* C12, the indexes: the index a generator passes to appendNth is the position
\* of the target in a list that holds it, never negative.
C12_GeneratorsPassListIndex ==
    Generated => \A token \in GeneratorNthTokens :
                     /\ token.index >= 0
                     /\ token.index < Len(dom.parent)
                     /\ token.score = NthScore(token.index)

\* The token appended for index is a positional one carrying index, its score
\* within the limits, the minimum in the first step, not below the score of the
\* token for index - 1 (previous) and equal to it inside a step.
NthStepOk(index, token, previous) ==
    /\ token.engine = "nth"
    /\ token.index = index
    /\ token.score >= kNthScoreMin
    /\ token.score <= kNthScoreMax
    /\ index < kNthBucket => token.score = kNthScoreMin
    /\ index > 0 => token.score >= previous.score
    /\ index % kNthBucket # 0 => token.score = previous.score

\* C12: appendNth(index, total) appends exactly one positional-index token
\* carrying that index; its score is a non-decreasing step function of the
\* index with steps of width 4 (indexes 0 to 3 share the minimum), never below
\* the minimum positional score and never above the cap.
C12_NthScoreSteps ==
    /\ \A c \in cands : \A index \in {0, MaxIndex} :
           appendNth(c, index, index + 1).tokens = Append(c.tokens, NthTokenOf(NoBest, index))
    /\ cands # {} =>
         \A index \in 0..MaxNthIndex :
             NthStepOk(index, NthTokenOf(NoBest, index),
                       NthTokenOf(NoBest, IF index > 0 THEN index - 1 ELSE 0))

\* appendNth has made a candidate out of another, with an index past the first step.
C12_Witness ==
    \E c \in cands : \E d \in cands :
        /\ d = appendNth(c, MaxIndex, MaxIndex + 1)
        /\ d.tokens[Len(d.tokens)].score > kNthScoreMin

\* The token of the structural path of _generateCSSSelector (line 522).
IsFallbackToken(token) == token.engine = "css" /\ token.css.path

\* C13: the CSS-fallback score is strictly higher than the score of every other
\* single token: the strategies' constants with their penalties, the parent
\* path, and the positional-index tokens appendNth makes.
C13_FallbackScoreAboveEveryToken ==
    /\ cands # {} =>
         \A score \in {kTestIdScore, kOtherTestIdScore, kIframeByAttributeScore,
                       kPlaceholderScore + kExactPenalty, kLabelScore + kExactPenalty,
                       kRoleWithNameScore + kTextLengthMaxPenalty + kExactPenalty,
                       kAltTextScore + kExactPenalty,
                       kTextScore + kTextLengthMaxPenalty + kExactPenalty,
                       kTitleScore + kExactPenalty, kCSSIdScore, kRoleWithoutNameScore,
                       kCSSInputTypeNameScore + 1, kXPathParentsScore} :
             score < kCSSFallbackScore
    /\ \A c \in cands : \A i \in 1..Len(c.tokens) :
           ~IsFallbackToken(c.tokens[i]) => c.tokens[i].score < kCSSFallbackScore

\* The candidates the generators offer in every call the orchestration makes.
GeneratorCandidates ==
    UNION {{s[n] : n \in 1..Len(s)} :
           s \in {offeredWithoutChaining(CallCtx, call[1], call[2], allow) :
                     call \in GeneratorCalls, allow \in BOOLEAN}}

StructuralTokens == {"css", "nth", "xpath"}
StructuralParts == {"css", "nth", "xpath", ".."}

\* C14: with omitInternalEngines = true no test-id, attribute, role or text
\* token is in any candidate, and the returned selector is made of CSS,
\* positional-index and parent-path tokens only.
C14_OmitInternalEnginesStructuralOnly ==
    (pc # "start" /\ options.omitInternalEngines)
        => /\ Returned(result)
           /\ \A i \in 1..Len(result.selector) : result.selector[i].engine \in StructuralParts
           /\ \A c \in GeneratorCandidates :
                  \A i \in 1..Len(c.tokens) : c.tokens[i].engine \in StructuralTokens

\* A button with a test id and a role, generated for with omitInternalEngines.
C14_Witness ==
    /\ pc = "called"
    /\ options.omitInternalEngines
    /\ nodeName(target) = "BUTTON"
    /\ getAttribute(target, options.testIdAttributeName) # E
    /\ getElementRole(target) = "button"
    /\ Returned(result)
    /\ result.selector # <<>>
    /\ result.elements = <<target>>

(***************************************************************************)
(* RoleEngine.queryAll on its own: a parsed role selector is queried in a  *)
(* document.                                                               *)
(***************************************************************************)
MaxAttributes == 1     \* attribute matchers of one role selector

\* <html><button aria-label="a"></button><h2>Ab</h2></html> and
\* <html><div><input type="t" name="n"></div></html>
RoleDocuments ==
    { [parent |-> <<Document, 1, 1>>,
       el |-> <<Html, [Elem("BUTTON") EXCEPT !.ariaLabel = <<"a">>],
                [Elem("H2") EXCEPT !.text = <<"A", "b">>]>>],
      [parent |-> <<Document, 1, 2>>,
       el |-> <<Html, Elem("DIV"), [Elem("INPUT") EXCEPT !.type = <<"t">>, !.name = <<"n">>]>>] }

\* [attr], [attr=value] and [attr~=value] as parseComponentSelector gives them:
\* the truthy form carries the value true.
AttributePool ==
    {Attribute(path, m[1], m[2]) :
        path \in {<<n>> : n \in kKnownAttributes \cup {"bar", "Level"}} \cup {<<"bar", "qux">>, <<"level", "qux">>},
        m \in {<<"<truthy>", BooleanValue(TRUE)>>,
               <<"=", BooleanValue(TRUE)>>, <<"=", BooleanValue(FALSE)>>,
               <<"=", NumberValue(2)>>, <<"=", StringValue(<<"a">>)>>,
               <<"~=", BooleanValue(TRUE)>>, <<"~=", NumberValue(2)>>}}

ParsedSelectors ==
    {[name |-> role, attributes |-> attributes] :
        role \in {"button", "BUTTON", "heading", "textbox"},
        attributes \in UNION {[1..n -> AttributePool] : n \in 0..MaxAttributes}}

InitRole ==
    /\ dom \in RoleDocuments
    /\ target \in {Document, 1}
    /\ options = Options(FALSE, FALSE, Undef)
    /\ pc = "role"
    /\ result = NoResult
    /\ result2 = NoResult
    /\ coll = <<>>
    /\ offered = <<>>
    /\ cands = {}
    /\ parsed \in ParsedSelectors
    /\ queried = NoQueried
    /\ mock = NoMock
    /\ chan = NoChan
    /\ runner = NoRunner
    /\ memo = NoMemo
    /\ pointer = NoPointer

\* RoleEngine.queryAll(scope, selector), the scope being the target.
RoleQuery ==
    /\ pc = "role"
    /\ queried' = roleQueryAll(target, parsed)
    /\ pc' = "queried"
    /\ UNCHANGED <<dom, target, options, result, result2, coll, offered, cands, parsed, mock, chan, runner, memo, pointer>>

NextRole == RoleQuery

SpecRole == InitRole /\ [][NextRole]_vars

\* The type a matcher value has to have for the matcher to use it: a number
\* for level, a string for name (compared with the accessible name, lines
\* 98-101), a boolean for the others.
RightType(name) ==
    CASE name = "level" -> "number"
      [] name = "name"  -> "string"
      [] OTHER          -> "boolean"

Malformed(attr) ==
    \/ Len(attr.jsonPath) > 1
    \/ lowerName(attr.jsonPath[1]) \notin kKnownAttributes
    \/ attr.value.type # RightType(lowerName(attr.jsonPath[1]))
    \/ attr.op \notin {"<truthy>", "="}

\* C15: RoleEngine.queryAll throws, before it matches any element, whenever an
\* attribute matcher is malformed: an unknown or nested attribute name, a
\* value of the wrong type for a known attribute, or an operator that is
\* neither the truthy form nor "=".
C15_MalformedMatcherThrows ==
    (pc = "queried" /\ \E i \in 1..Len(parsed.attributes) : Malformed(parsed.attributes[i]))
        => (queried.threw # "" /\ queried.matched = 0 /\ queried.elements = <<>>)

\* C15, apart from the name attribute: every malformed matcher on another
\* attribute makes the query throw before it matches.
C15_MalformedOtherThanNameThrows ==
    (pc = "queried"
        /\ \E i \in 1..Len(parsed.attributes) :
               /\ Malformed(parsed.attributes[i])
               /\ parsed.attributes[i].jsonPath # <<"name">>)
        => (queried.threw # "" /\ queried.matched = 0 /\ queried.elements = <<>>)

(***************************************************************************)
(* generateSelector for elements with an id attribute, with the test id    *)
(* attribute left at data-testid or configured to be id.                   *)
(***************************************************************************)
\* ids "a1" and "1a" are guid-like (one transition in two characters), "ab" is
\* not; "1a" is no plain identifier and is written as [id="1a"].
IdKinds ==
    { [Elem("DIV") EXCEPT !.id = <<"a", "1">>],
      [Elem("DIV") EXCEPT !.id = <<"1", "a">>],
      [Elem("DIV") EXCEPT !.id = <<"a", "b">>],
      [Elem("IFRAME") EXCEPT !.id = <<"a", "1">>],
      [Elem("BUTTON") EXCEPT !.id = <<"a", "1">>, !.ariaLabel = <<"a">>] }

IdDocuments ==
    UNION {{[parent |-> p, el |-> <<Html>> \o k] : p \in ParentVectors(n + 1), k \in [1..n -> IdKinds]}
           : n \in 1..MaxElements}

IdOptionProfiles ==
    {Options(FALSE, FALSE, Undef),
     [Options(FALSE, FALSE, Undef) EXCEPT !.testIdAttributeName = "id"]}

InitId ==
    /\ dom \in IdDocuments
    /\ target \in 1..Len(dom.parent)
    /\ options \in IdOptionProfiles
    /\ pc = "start"
    /\ result = NoResult
    /\ result2 = NoResult
    /\ coll = <<>>
    /\ offered = <<>>
    /\ cands = {}
    /\ parsed = NoParsed
    /\ queried = NoQueried
    /\ mock = NoMock
    /\ chan = NoChan
    /\ runner = NoRunner
    /\ memo = NoMemo
    /\ pointer = NoPointer

SpecId == InitId /\ [][Next]_vars

\* The candidate _tryCSS makes from the id (lines 346-350), with or without nth.
IsIdCandidate(c) ==
    /\ c.tokens[1].engine = "css"
    /\ ~c.tokens[1].css.path
    /\ c.tokens[1].css.steps[1].id # E

\* What the generators offer for the target itself, in the root's scope.
OfferedForTarget ==
    {offeredWithoutChaining(CallCtx, EffRoot, target, TRUE)[n] :
        n \in 1..Len(offeredWithoutChaining(CallCtx, EffRoot, target, TRUE))}

\* The id is guid-like and none of the other candidates is cheaper than the
\* candidate made from the id.
IdIsCheapest ==
    /\ getAttribute(target, "id") # E
    /\ isGuidLike(getAttribute(target, "id"))
    /\ \A c \in OfferedForTarget : \A d \in OfferedForTarget :
           (IsIdCandidate(c) /\ ~IsIdCandidate(d)) => c.score <= d.score

\* #<id>, or [id="<id>"] for an id that is no plain identifier.
IdPart(id) ==
    [Part("css") EXCEPT
        !.css = SingleCss([Compound("", id, <<>>, "", E, 0) EXCEPT !.idQuoted = ~IsPlainIdentifier(id)])]

\* C16: for a target whose id passes the guid-like heuristic and which has no
\* cheaper candidate, the selector is the single CSS token #<id> (or
\* [id="<id>"]), with no positional index and no structural path.
C16_GuidLikeIdAlone ==
    (Generated /\ IdIsCheapest)
        => (Returned(result) /\ result.selector = <<IdPart(getAttribute(target, "id"))>>)

\* C16, with the test id attribute left at data-testid.
C16_GuidLikeIdAloneByDefault ==
    (Generated /\ IdIsCheapest /\ options.testIdAttributeName = "data-testid")
        => (Returned(result) /\ result.selector = <<IdPart(getAttribute(target, "id"))>>)

(***************************************************************************)
(* WebSocket mock of playwright-core/src/client/mocks: the page-side       *)
(* WebSocketImpl (injected/webSocketInjected.ts), the node-side            *)
(* WebSocketRouteImpl, and what connects them: binding calls from the page *)
(* to node and evaluate calls from node to the page, each delivered in the *)
(* order it was issued.  One page socket and its route are modelled,       *)
(* together with the native WebSocket that connects to the real server.    *)
(*                                                                         *)
(* The whole state is the record `mock`; an operator named after a method  *)
(* takes that record and returns it as the method leaves it.  A method     *)
(* that throws returns the record as it was when it threw.                 *)
(***************************************************************************)
CONNECTING == 0
OPEN == 1
CLOSING == 2
CLOSED == 3

\* The reason of a close that was given none.
NoReason == "undefined"

\* A WebSocketMessage: a string, a Blob or an ArrayBuffer of one character.
Message(kind, text) == [kind |-> kind, text |-> text]
NoMessage == Message("", "")

WSData(data, isBase64) == [data |-> data, isBase64 |-> isBase64]
NoData == WSData("", FALSE)

\* The one-character payloads, by who sends them.
PageTexts == <<"a", "b", "c">>
HandlerServerTexts == <<"p", "q", "r">>
HandlerClientTexts == <<"y", "z">>
ServerTexts == <<"x", "w">>

Base64 ==
    {<<"a", "YQ==">>, <<"b", "Yg==">>, <<"c", "Yw==">>, <<"p", "cA==">>, <<"q", "cQ==">>, <<"r", "cg==">>,
     <<"w", "dw==">>, <<"x", "eA==">>, <<"y", "eQ==">>, <<"z", "eg==">>}

btoa(s) == (CHOOSE pair \in Base64 : pair[1] = s)[2]

atob(s) == (CHOOSE pair \in Base64 : pair[2] = s)[1]

bufferToData(b) == WSData(btoa(b), TRUE)

stringToBuffer(s) == atob(s)

\* What messageToData passes to its callback.
messageToData(message) ==
    IF message.kind = "string" THEN WSData(message.text, FALSE)
    ELSE bufferToData(message.text)

dataToMessage(data, binaryType) ==
    IF ~data.isBase64 THEN Message("string", data.data)
    ELSE Message(IF binaryType = "arraybuffer" THEN "arraybuffer" ELSE "blob",
                 stringToBuffer(data.data))

\* A BindingRequest or an EvalRequest.
Request(type, data, code, reason, wasClean) ==
    [type |-> type, data |-> data, code |-> code, reason |-> reason, wasClean |-> wasClean]

\* An event as a listener sees it, with the listeners it was given to.
Event(type, data, code, reason, wasClean, heard) ==
    [type |-> type, data |-> data, code |-> code, reason |-> reason,
     wasClean |-> wasClean, heard |-> heard]

\* What the native WebSocket put on the wire to the real server.
Frame(type, data, code, reason) ==
    [type |-> type, data |-> data, code |-> code, reason |-> reason]

\* One handler registered with mockWebSockets, or none: whether its pattern
\* matches the url, whether its callback calls route.server.connect(), and
\* the 'message' listeners it adds to route.client and route.server, each
\* the set of payloads on which it calls preventDefault().
Handler(matched, connects, clientListeners, serverListeners) ==
    [matched |-> matched, connects |-> connects,
     clientListeners |-> clientListeners, serverListeners |-> serverListeners]

\* new WebSocket(url) in the page, and nothing delivered yet.
NewMock(handler) ==
    [ws |-> [readyState |-> CONNECTING, binaryType |-> "blob", hasWs |-> FALSE,
             wsBufferedMessages |-> <<>>, registered |-> TRUE,
             reading |-> <<>>, events |-> <<>>],
     native |-> [readyState |-> Undef, failed |-> FALSE, code |-> Undef,
                 reason |-> NoReason, wire |-> <<>>, opened |-> FALSE],
     route |-> [created |-> FALSE, registered |-> FALSE,
                client |-> CONNECTING, server |-> CONNECTING,
                clientEvents |-> <<>>, serverEvents |-> <<>>, reading |-> <<>>],
     handler |-> handler,
     toNode |-> <<Request("onConnect", NoData, Undef, NoReason, FALSE)>>,
     toPage |-> <<>>,
     calls |-> [sent |-> <<>>, pageSends |-> 0, blobs |-> 0, closed |-> FALSE,
                navigated |-> FALSE, routed |-> FALSE,
                closeReadyState |-> Undef, closeArgs |-> <<>>,
                serverMessages |-> 0, serverClosed |-> FALSE,
                clientSends |-> 0, serverSends |-> 0]]

binding(m, request) == [m EXCEPT !.toNode = Append(@, request)]

sendEval(m, request) == [m EXCEPT !.toPage = Append(@, request)]

\* ---- the native WebSocket ----

nativeSend(m, message) ==
    [m EXCEPT !.native.wire = Append(@, Frame("message", message, Undef, NoReason))]

\* WebSocket.close(code, reason) of the platform: a connection that is not
\* yet established fails; an open one starts the closing handshake.
nativeClose(m, code, reason) ==
    IF m.native.readyState = CONNECTING
    THEN [m EXCEPT !.native.readyState = CLOSING, !.native.failed = TRUE]
    ELSE IF m.native.readyState = OPEN
    THEN [m EXCEPT !.native.readyState = CLOSING,
                   !.native.code = code, !.native.reason = reason,
                   !.native.wire = Append(@, Frame("close", NoMessage, code, reason))]
    ELSE m

\* ---- page side: WebSocketImpl ----

ws_dispatchEvent(m, event) == [m EXCEPT !.ws.events = Append(@, event)]

ws_messageToData(m, message, type) ==
    IF message.kind = "blob"
    THEN [m EXCEPT !.ws.reading = Append(@, [type |-> type, message |-> message])]
    ELSE binding(m, Request(type, messageToData(message), Undef, NoReason, FALSE))

ws_onsend(m, message) ==
    IF m.ws.readyState # OPEN THEN m
    ELSE ws_messageToData(m, message, "onSend")

ValidCloseCode(code) == code = Undef \/ code = 1000 \/ (code >= 3000 /\ code <= 4999)

ws_onclose(m, code, reason) ==
    IF ~ValidCloseCode(code) THEN m
    ELSE binding([m EXCEPT !.ws.readyState =
                               IF @ = OPEN \/ @ = CONNECTING THEN CLOSING ELSE @],
                 Request("onClose", NoData, code, reason, TRUE))

ensureOpened(m) ==
    IF m.ws.readyState # CONNECTING THEN m
    ELSE ws_dispatchEvent([m EXCEPT !.ws.readyState = OPEN],
                          Event("open", NoMessage, Undef, NoReason, FALSE, {}))

cleanupWS(m) ==
    IF ~m.ws.hasWs THEN m
    ELSE [m EXCEPT !.ws.hasWs = FALSE, !.ws.wsBufferedMessages = <<>>]

ws_onWSClose(m, code, reason, wasClean) ==
    binding(cleanupWS(m), Request("onWSClose", NoData, code, reason, wasClean))

ws_onWSError(m) == binding(m, Request("onWSError", NoData, Undef, NoReason, FALSE))

ws_onWSMessage(m, message) == ws_messageToData(m, message, "onWSMessage")

serverConnect(m) ==
    IF m.ws.hasWs THEN m
    ELSE [m EXCEPT !.ws.hasWs = TRUE, !.native.readyState = CONNECTING]

\* _ws.onopen
RECURSIVE sendAll(_, _)
sendAll(m, messages) ==
    IF messages = <<>> THEN m
    ELSE sendAll(nativeSend(m, Head(messages)), Tail(messages))

ws_onopen(m) ==
    ensureOpened([sendAll(m, m.ws.wsBufferedMessages) EXCEPT !.ws.wsBufferedMessages = <<>>])

serverSend(m, message) ==
    IF ~m.ws.hasWs THEN m
    ELSE IF m.native.readyState = CONNECTING
    THEN [m EXCEPT !.ws.wsBufferedMessages = Append(@, message)]
    ELSE IF m.native.readyState = OPEN THEN nativeSend(m, message)
    ELSE m

clientSend(m, message) ==
    ws_dispatchEvent(ensureOpened(m), Event("message", message, Undef, NoReason, FALSE, {}))

closeClient(m, code, reason, wasClean) ==
    IF m.ws.readyState # CLOSED
    THEN ws_dispatchEvent([m EXCEPT !.ws.readyState = CLOSED],
                          Event("close", NoMessage, code, reason, wasClean, {}))
    ELSE m

closeReal(m, code, reason, wasClean) ==
    IF m.ws.hasWs THEN ws_onWSClose(nativeClose(m, code, reason), code, reason, wasClean)
    ELSE m

clientClose(m, code, reason, wasClean) ==
    [binding(closeReal(closeClient(m, code, reason, wasClean), code, reason, wasClean),
             Request("onCleanup", NoData, Undef, NoReason, FALSE))
        EXCEPT !.ws.registered = FALSE]

serverClose(m, code, reason, wasClean) ==
    IF m.ws.hasWs THEN nativeClose(m, code, reason)
    ELSE ws_onWSClose(m, code, reason, wasClean)

clientError(m) == ws_dispatchEvent(m, Event("error", NoMessage, Undef, NoReason, FALSE, {}))

\* globalThis.__pwWebSocketDispatch
pwWebSocketDispatch(m, request) ==
    IF ~m.ws.registered THEN m
    ELSE CASE request.type = "ensureOpened" -> ensureOpened(m)
           [] request.type = "clientSend" ->
                clientSend(m, dataToMessage(request.data, m.ws.binaryType))
           [] request.type = "clientClose" ->
                clientClose(m, request.code, request.reason, request.wasClean)
           [] request.type = "serverSend" ->
                serverSend(m, dataToMessage(request.data, m.ws.binaryType))
           [] request.type = "serverClose" ->
                serverClose(m, request.code, request.reason, request.wasClean)
           [] request.type = "serverConnect" -> serverConnect(m)
           [] request.type = "clientError" -> clientError(m)
           [] OTHER -> m

\* ---- node side: WebSocketRouteImpl ----

AllListeners(listeners) == 1..Len(listeners)

\* event.defaultPrevented after the listeners ran on a message.
defaultPrevented(listeners, message) ==
    \E i \in AllListeners(listeners) : message.text \in listeners[i]

client_dispatchEvent(m, event) == [m EXCEPT !.route.clientEvents = Append(@, event)]

server_dispatchEvent(m, event) == [m EXCEPT !.route.serverEvents = Append(@, event)]

route_messageToData(m, message, type) ==
    IF message.kind = "blob"
    THEN [m EXCEPT !.route.reading = Append(@, [type |-> type, message |-> message])]
    ELSE sendEval(m, Request(type, messageToData(message), Undef, NoReason, FALSE))

client_onsend(m, message) ==
    IF m.route.client # OPEN THEN m
    ELSE route_messageToData(m, message, "clientSend")

client_onclose(m, code, reason, wasClean) ==
    sendEval(m, Request("clientClose", NoData, code, reason, wasClean))

server_onsend(m, message) ==
    IF m.route.server # OPEN THEN m
    ELSE route_messageToData(m, message, "serverSend")

server_onclose(m, code, reason, wasClean) ==
    sendEval(m, Request("serverClose", NoData, code, reason, wasClean))

connect(m) ==
    IF m.route.server # CONNECTING THEN m
    ELSE sendEval(server_dispatchEvent([m EXCEPT !.route.server = OPEN],
                                       Event("open", NoMessage, Undef, NoReason, FALSE, {})),
                  Request("serverConnect", NoData, Undef, NoReason, FALSE))

onCleanup(m) == [m EXCEPT !.route.registered = FALSE]

forwardToServer_IgnoresPreventDefault(m, message) ==
    IF m.route.server = OPEN THEN server_onsend(m, message) ELSE m

forwardToServer(m, message) ==
    IF ~defaultPrevented(m.handler.clientListeners, message) /\ m.route.server = OPEN
    THEN server_onsend(m, message)
    ELSE m

route_onSend(m, message) ==
    forwardToServer(
        client_dispatchEvent(m, Event("message", message, Undef, NoReason, FALSE,
                                      AllListeners(m.handler.clientListeners))),
        message)

route_onClose(m, code, reason, wasClean) == server_onclose(m, code, reason, wasClean)

forwardToClient(m, message) ==
    IF ~defaultPrevented(m.handler.serverListeners, message)
    THEN client_onsend(m, message)
    ELSE m

route_onWSMessage(m, message) ==
    forwardToClient(
        server_dispatchEvent(m, Event("message", message, Undef, NoReason, FALSE,
                                      AllListeners(m.handler.serverListeners))),
        message)

dispatchClientClose(m, code, reason, wasClean) ==
    IF m.route.client = CLOSED THEN m
    ELSE client_dispatchEvent([m EXCEPT !.route.client = CLOSED],
                              Event("close", NoMessage, code, reason, wasClean, {}))

dispatchServerClose(m, code, reason, wasClean) ==
    IF m.route.server = CLOSED THEN m
    ELSE server_dispatchEvent([m EXCEPT !.route.server = CLOSED],
                              Event("close", NoMessage, code, reason, wasClean, {}))

route_onWSClose(m, code, reason, wasClean) ==
    client_onclose(
        dispatchClientClose(dispatchServerClose(m, code, reason, wasClean),
                            code, reason, wasClean),
        code, reason, wasClean)

frameNavigatedAway_NoCleanup(m) == route_onWSClose(m, Undef, NoReason, TRUE)

frameNavigatedAway(m) == onCleanup(route_onWSClose(m, Undef, NoReason, TRUE))

\* The routes of the frame are those constructed and not yet cleaned up.
onFrameNavigated(m) ==
    IF m.route.created /\ m.route.registered THEN frameNavigatedAway(m) ELSE m

route_onWSError(m) == sendEval(m, Request("clientError", NoData, Undef, NoReason, FALSE))

sendEnsureOpened(m) == sendEval(m, Request("ensureOpened", NoData, Undef, NoReason, FALSE))

WebSocketRouteImpl(m) ==
    [m EXCEPT !.route.created = TRUE, !.route.registered = TRUE,
              !.route.client = OPEN, !.route.server = CONNECTING]

\* The handler's callback, as the tests write it.
callback(m) == IF m.handler.connects THEN connect(m) ELSE m

onConnect(m) ==
    IF m.handler.matched THEN sendEnsureOpened(callback(m))
    ELSE connect(m)

\* The function exposed as __pwWebSocketBinding.
pwWebSocketBinding(m, request) ==
    IF request.type = "onConnect" THEN onConnect(WebSocketRouteImpl(m))
    ELSE IF ~m.route.registered THEN m
    ELSE CASE request.type = "onSend" ->
                route_onSend(m, dataToMessage(request.data, "blob"))
           [] request.type = "onClose" ->
                route_onClose(m, request.code, request.reason, request.wasClean)
           [] request.type = "onCleanup" -> onCleanup(m)
           [] request.type = "onWSMessage" ->
                route_onWSMessage(m, dataToMessage(request.data, "blob"))
           [] request.type = "onWSClose" ->
                route_onWSClose(m, request.code, request.reason, request.wasClean)
           [] request.type = "onWSError" -> route_onWSError(m)
           [] OTHER -> m

\* ---- the specification of the mock ----

MaxPageSends == 2
MaxServerMessages == 1
MaxClientSends == 1
MaxServerSends == 2

\* What page code sends, by payload: the first message as a string or as a
\* Blob, the others as strings.
PageMessages(text) ==
    IF text = PageTexts[1] THEN {Message("string", text), Message("blob", text)}
    ELSE {Message("string", text)}

\* The arguments page code gives to close().
CloseArgs == {<<3002, "oops">>}

\* The code and reason of a close the real server starts.
ServerCloseArgs == {<<1001, "bye">>}

\* The 'message' listeners of the handler: on route.client two, the first
\* one preventing the default for "b"; on route.server one or two.
ClientListenerLists == {<<{"b"}, {}>>}
ServerListenerLists == {<<{}>>, <<{"x"}, {}>>}

Handlers ==
    {Handler(FALSE, FALSE, <<>>, <<>>)}
    \cup {Handler(TRUE, FALSE, c, <<>>) : c \in ClientListenerLists}
    \cup {Handler(TRUE, TRUE, c, s) : c \in ClientListenerLists, s \in ServerListenerLists}

InitWS ==
    /\ dom = CollDom
    /\ target = Len(CollDom.parent)
    /\ options = Options(FALSE, FALSE, Undef)
    /\ pc = "ws"
    /\ result = NoResult
    /\ result2 = NoResult
    /\ coll = <<>>
    /\ offered = <<>>
    /\ cands = {}
    /\ parsed = NoParsed
    /\ queried = NoQueried
    /\ mock \in {NewMock(handler) : handler \in Handlers}
    /\ chan = NoChan
    /\ runner = NoRunner
    /\ memo = NoMemo
    /\ pointer = NoPointer

\* A step of the mock leaves it as m.
MockStep(m) ==
    /\ pc = "ws"
    /\ mock' = m
    /\ UNCHANGED <<dom, target, options, pc, result, result2, coll, offered, cands, roleVars, chan, runner, memo, pointer>>

\* Page code calls ws.send(message); a call that throws changes nothing.
PageSend ==
    /\ pc = "ws"
    /\ ~mock.calls.navigated
    /\ mock.ws.readyState = OPEN
    /\ mock.calls.pageSends < MaxPageSends
    /\ \E message \in PageMessages(PageTexts[mock.calls.pageSends + 1]) :
        MockStep([ws_onsend(mock, message)
                    EXCEPT !.calls.pageSends = @ + 1,
                           !.calls.blobs = IF message.kind = "blob" THEN @ + 1 ELSE @,
                           !.calls.sent = Append(@, PageTexts[mock.calls.pageSends + 1])])

\* Page code calls ws.close(code, reason).
PageClose ==
    /\ pc = "ws"
    /\ ~mock.calls.navigated
    /\ ~mock.calls.closed
    /\ \E args \in CloseArgs :
        MockStep([ws_onclose(mock, args[1], args[2])
                    EXCEPT !.calls.closed = TRUE,
                           !.calls.closeReadyState = mock.ws.readyState,
                           !.calls.closeArgs = args,
                           !.calls.sent = Append(@, "close")])

Without(s, i) == SubSeq(s, 1, i - 1) \o SubSeq(s, i + 1, Len(s))

\* A Blob's arrayBuffer() promise resolves in the page: messageToData's
\* callback runs.
PageRead ==
    /\ pc = "ws"
    /\ ~mock.calls.navigated
    /\ \E i \in DOMAIN mock.ws.reading :
        MockStep(binding([mock EXCEPT !.ws.reading = Without(@, i)],
                         Request(mock.ws.reading[i].type,
                                 messageToData(mock.ws.reading[i].message),
                                 Undef, NoReason, FALSE)))

\* The same in node.
NodeRead ==
    /\ pc = "ws"
    /\ \E i \in DOMAIN mock.route.reading :
        MockStep(sendEval([mock EXCEPT !.route.reading = Without(@, i)],
                          Request(mock.route.reading[i].type,
                                  messageToData(mock.route.reading[i].message),
                                  Undef, NoReason, FALSE)))

\* The oldest request of a channel is of the given type.
Delivered(channel, type) == channel # <<>> /\ Head(channel).type = type

\* Node runs the binding for the oldest call of the page.
Bound == pwWebSocketBinding([mock EXCEPT !.toNode = Tail(@)], Head(mock.toNode))

OnConnect ==
    /\ pc = "ws"
    /\ Delivered(mock.toNode, "onConnect")
    /\ MockStep(Bound)

OnSend ==
    /\ pc = "ws"
    /\ Delivered(mock.toNode, "onSend")
    /\ MockStep(Bound)

OnClose ==
    /\ pc = "ws"
    /\ Delivered(mock.toNode, "onClose")
    /\ MockStep(Bound)

OnCleanup ==
    /\ pc = "ws"
    /\ Delivered(mock.toNode, "onCleanup")
    /\ MockStep(Bound)

OnWSMessage ==
    /\ pc = "ws"
    /\ Delivered(mock.toNode, "onWSMessage")
    /\ MockStep(Bound)

OnWSClose ==
    /\ pc = "ws"
    /\ Delivered(mock.toNode, "onWSClose")
    /\ MockStep(Bound)

OnWSError ==
    /\ pc = "ws"
    /\ Delivered(mock.toNode, "onWSError")
    /\ MockStep(Bound)

\* The page runs the oldest evaluate of node.
Dispatched == pwWebSocketDispatch([mock EXCEPT !.toPage = Tail(@)], Head(mock.toPage))

EnsureOpened ==
    /\ pc = "ws"
    /\ Delivered(mock.toPage, "ensureOpened")
    /\ MockStep(Dispatched)

ClientSend ==
    /\ pc = "ws"
    /\ Delivered(mock.toPage, "clientSend")
    /\ MockStep(Dispatched)

ClientClose ==
    /\ pc = "ws"
    /\ Delivered(mock.toPage, "clientClose")
    /\ MockStep(Dispatched)

ServerSend ==
    /\ pc = "ws"
    /\ Delivered(mock.toPage, "serverSend")
    /\ MockStep(Dispatched)

ServerClose ==
    /\ pc = "ws"
    /\ Delivered(mock.toPage, "serverClose")
    /\ MockStep(Dispatched)

ServerConnect ==
    /\ pc = "ws"
    /\ Delivered(mock.toPage, "serverConnect")
    /\ MockStep(Dispatched)

ClientError ==
    /\ pc = "ws"
    /\ Delivered(mock.toPage, "clientError")
    /\ MockStep(Dispatched)

\* The real server accepts the connection: the native socket opens and its
\* onopen handler runs, unless _cleanupWS has removed it.
NativeOpen ==
    /\ pc = "ws"
    /\ mock.native.readyState = CONNECTING
    /\ MockStep(IF mock.ws.hasWs
                THEN ws_onopen([mock EXCEPT !.native.readyState = OPEN, !.native.opened = TRUE])
                ELSE [mock EXCEPT !.native.readyState = OPEN, !.native.opened = TRUE])

\* The real server sends a message.
NativeMessage ==
    /\ pc = "ws"
    /\ mock.native.readyState = OPEN
    /\ mock.calls.serverMessages < MaxServerMessages
    /\ MockStep(IF mock.ws.hasWs
                THEN ws_onWSMessage([mock EXCEPT !.calls.serverMessages = @ + 1],
                                    Message("string", ServerTexts[mock.calls.serverMessages + 1]))
                ELSE [mock EXCEPT !.calls.serverMessages = @ + 1])

\* The close event of the native socket: after a failed connection an error
\* event and a close event with code 1006; after a closing handshake the
\* code and reason the server echoes.
nativeClosed(m) ==
    IF ~m.ws.hasWs THEN m
    ELSE IF m.native.failed THEN ws_onWSClose(ws_onWSError(m), 1006, "", FALSE)
    ELSE ws_onWSClose(m, IF m.native.code = Undef THEN 1005 ELSE m.native.code,
                      IF m.native.reason = NoReason THEN "" ELSE m.native.reason, TRUE)

NativeClose ==
    /\ pc = "ws"
    /\ mock.native.readyState = CLOSING
    /\ MockStep(nativeClosed([mock EXCEPT !.native.readyState = CLOSED]))

\* The real server closes the connection.
ServerCloses ==
    /\ pc = "ws"
    /\ mock.native.readyState = OPEN
    /\ ~mock.calls.serverClosed
    /\ \E args \in ServerCloseArgs :
        MockStep(nativeClosed([mock EXCEPT !.native.readyState = CLOSED,
                                           !.native.code = args[1],
                                           !.native.reason = args[2],
                                           !.calls.serverClosed = TRUE]))

\* The route handler calls route.client.send(message).
HandlerClientSend ==
    /\ pc = "ws"
    /\ mock.handler.matched
    /\ mock.route.created
    /\ mock.route.client = OPEN
    /\ mock.calls.clientSends < MaxClientSends
    /\ MockStep(client_onsend([mock EXCEPT !.calls.clientSends = @ + 1],
                              Message("string", HandlerClientTexts[mock.calls.clientSends + 1])))

\* The route handler calls route.server.send(message).
HandlerServerSend ==
    /\ pc = "ws"
    /\ mock.handler.matched
    /\ mock.route.created
    /\ mock.route.server = OPEN
    /\ mock.calls.serverSends < MaxServerSends
    /\ MockStep(server_onsend([mock EXCEPT !.calls.serverSends = @ + 1],
                              Message("string", HandlerServerTexts[mock.calls.serverSends + 1])))

\* The frame of the socket navigates: its document, with the socket, its
\* pending reads and its native connection, is gone, and node hears
\* 'framenavigated'.
FrameNavigated ==
    /\ pc = "ws"
    /\ ~mock.calls.navigated
    /\ MockStep(onFrameNavigated(
            [mock EXCEPT !.calls.navigated = TRUE,
                         !.calls.routed = mock.route.created,
                         !.ws.registered = FALSE,
                         !.ws.hasWs = FALSE,
                         !.ws.reading = <<>>,
                         !.native.readyState = IF @ = Undef THEN Undef ELSE CLOSED]))

NextWS ==
    \/ PageSend \/ PageClose \/ PageRead \/ NodeRead
    \/ OnConnect \/ OnSend \/ OnClose \/ OnCleanup \/ OnWSMessage \/ OnWSClose \/ OnWSError
    \/ EnsureOpened \/ ClientSend \/ ClientClose \/ ServerSend \/ ServerClose
    \/ ServerConnect \/ ClientError
    \/ NativeOpen \/ NativeMessage \/ NativeClose \/ ServerCloses
    \/ HandlerClientSend \/ HandlerServerSend

SpecWS == InitWS /\ [][NextWS]_vars

\* The mock in a frame that may navigate.
NextNav == NextWS \/ FrameNavigated

SpecNav == InitWS /\ [][NextNav]_vars


\* The route is connected to the real server: no handler matched, or the
\* handler's callback called route.server.connect().
ConnectedToRealServer == ~mock.handler.matched \/ mock.handler.connects

\* The 'open' events the page socket has dispatched.
OpenEvents == {i \in DOMAIN mock.ws.events : mock.ws.events[i].type = "open"}

\* The page socket has opened only if the real connection has, and has
\* fired 'open' at most once.
OpenedAfterRealOpen ==
    /\ (mock.ws.readyState = OPEN \/ OpenEvents # {}) => mock.native.opened
    /\ Cardinality(OpenEvents) <= 1

\* C17: a page WebSocket whose route is connected to the real server (no
\* handler matched, or the handler called route.server.connect()) is not
\* OPEN and has fired no 'open' event before the real connection has opened,
\* and fires 'open' at most once.  The handler is one that does not call
\* route.client.send(), which opens the page socket by itself.
C17_OpenOnlyAfterRealOpen ==
    (pc = "ws" /\ ConnectedToRealServer /\ mock.calls.clientSends = 0) =>
        OpenedAfterRealOpen

\* The same where no handler matched the url.
C17_NoHandlerOpenOnlyAfterRealOpen ==
    (pc = "ws" /\ ~mock.handler.matched /\ mock.calls.clientSends = 0) =>
        OpenedAfterRealOpen

\* Page code has called close(code, reason) on the socket while it was OPEN,
\* and the real server has not closed the connection on its own.
PageClosedOpenSocket ==
    /\ pc = "ws"
    /\ mock.calls.closed
    /\ mock.calls.closeReadyState = OPEN
    /\ ~mock.calls.serverClosed

\* The 'close' events the page socket has dispatched.
CloseEvents == {i \in DOMAIN mock.ws.events : mock.ws.events[i].type = "close"}

\* The socket is CLOSING or CLOSED, CLOSED exactly when its one 'close' event
\* was dispatched, and that event carries what close() was given.
ClosedAsAsked ==
    /\ mock.ws.readyState \in {CLOSING, CLOSED}
    /\ mock.ws.readyState = CLOSED <=> CloseEvents # {}
    /\ Cardinality(CloseEvents) <= 1
    /\ \A i \in CloseEvents :
        /\ mock.ws.events[i].code = mock.calls.closeArgs[1]
        /\ mock.ws.events[i].reason = mock.calls.closeArgs[2]
        /\ mock.ws.events[i].wasClean

\* C18: after page code called close(code, reason) with a valid code on an
\* OPEN mocked WebSocket, the socket is CLOSING until it is CLOSED, it is
\* CLOSED once its 'close' event was delivered, there is at most one such
\* event, and the event carries that code and reason and wasClean = true.
C18_CloseCarriesCodeAndReason == PageClosedOpenSocket => ClosedAsAsked

\* The same for a socket that no handler opened ahead of the real connection:
\* no handler matched, or the handler did not connect to the real server.
C18_CloseCarriesCodeAndReasonUnlessOpenedEarly ==
    (PageClosedOpenSocket /\ ~(mock.handler.matched /\ mock.handler.connects)) =>
        ClosedAsAsked

\* In this step node handed the message to one side of the route to send
\* on: a request of the given type was issued for it, or the read of its
\* Blob that ends in that request was started.
HandedOn(type, message) ==
    IF message.kind = "blob"
    THEN /\ mock'.route.reading =
                Append(mock.route.reading, [type |-> type, message |-> message])
         /\ mock'.toPage = mock.toPage
    ELSE /\ mock'.toPage =
                Append(mock.toPage, Request(type, WSData(message.text, FALSE),
                                            Undef, NoReason, FALSE))
         /\ mock'.route.reading = mock.route.reading

NotHandedOn ==
    /\ mock'.toPage = mock.toPage
    /\ mock'.route.reading = mock.route.reading

\* The 'message' event for the message, seen by each of the listeners.
HeardByAll(listeners, message) ==
    Event("message", message, Undef, NoReason, FALSE, 1..Len(listeners))

NoneCalledPreventDefault(listeners, message) ==
    \A i \in 1..Len(listeners) : message.text \notin listeners[i]

\* Node takes the request of the given type for the registered route.
RouteTakes(type) ==
    /\ pc = "ws"
    /\ Delivered(mock.toNode, type)
    /\ mock'.toNode = Tail(mock.toNode)
    /\ mock.route.registered

ArrivedMessage == dataToMessage(Head(mock.toNode).data, "blob")

\* C19: a message sent by the page is delivered to every 'message' listener
\* on route.client and is handed on to the real server if and only if no
\* listener called preventDefault() and route.server is connected (OPEN); a
\* message of the real server is delivered to every 'message' listener on
\* route.server and is handed on to the page if and only if no listener
\* called preventDefault() and route.client is OPEN.
C19_ForwardUnlessPrevented ==
    [][/\ RouteTakes("onSend") =>
            /\ mock'.route.clientEvents =
                    Append(mock.route.clientEvents,
                           HeardByAll(mock.handler.clientListeners, ArrivedMessage))
            /\ mock'.route.serverEvents = mock.route.serverEvents
            /\ IF /\ NoneCalledPreventDefault(mock.handler.clientListeners, ArrivedMessage)
                  /\ mock.route.server = OPEN
               THEN HandedOn("serverSend", ArrivedMessage)
               ELSE NotHandedOn
       /\ RouteTakes("onWSMessage") =>
            /\ mock'.route.serverEvents =
                    Append(mock.route.serverEvents,
                           HeardByAll(mock.handler.serverListeners, ArrivedMessage))
            /\ mock'.route.clientEvents = mock.route.clientEvents
            /\ IF /\ NoneCalledPreventDefault(mock.handler.serverListeners, ArrivedMessage)
                  /\ mock.route.client = OPEN
               THEN HandedOn("clientSend", ArrivedMessage)
               ELSE NotHandedOn]_vars

MessagesOf(events) ==
    {events[i].data.text : i \in {j \in DOMAIN events : events[j].type = "message"}}

WireMessages ==
    {mock.native.wire[i].data.text :
        i \in {j \in DOMAIN mock.native.wire : mock.native.wire[j].type = "message"}}

\* Both listeners of route.client heard "a" and "b", the first prevented the
\* default for "b", and "a" reached the real server while "b" did not; the
\* server's "x" was heard on route.server and reached the page.
C19_Witness ==
    /\ pc = "ws"
    /\ Len(mock.handler.clientListeners) = 2
    /\ {"a", "b"} \subseteq MessagesOf(mock.route.clientEvents)
    /\ \A i \in DOMAIN mock.route.clientEvents :
          mock.route.clientEvents[i].type = "message" =>
              mock.route.clientEvents[i].heard = {1, 2}
    /\ "a" \in WireMessages
    /\ "b" \notin WireMessages
    /\ mock.toPage = <<>> /\ mock.route.reading = <<>>
    /\ "x" \in MessagesOf(mock.route.serverEvents)
    /\ "x" \in MessagesOf(mock.ws.events)

IsMessageFrame(frame) == frame.type = "message"

MessageFrames(messages) ==
    [i \in DOMAIN messages |-> Frame("message", messages[i], Undef, NoReason)]

\* The payloads on their way to the real server: those the native socket
\* has put on the wire, then those buffered for it, in order.
Outgoing(m) ==
    [i \in DOMAIN SelectSeq(m.native.wire, IsMessageFrame) |->
        SelectSeq(m.native.wire, IsMessageFrame)[i].data.text]
    \o [i \in DOMAIN m.ws.wsBufferedMessages |-> m.ws.wsBufferedMessages[i].text]

\* The payloads of one sender appear in the order that sender sent them,
\* none of them twice.
InOrderSent(texts, sent) ==
    \A i, j \in DOMAIN texts :
        (i < j /\ InSeq(texts[i], sent) /\ InSeq(texts[j], sent)) =>
            IndexOf(sent, texts[i]) < IndexOf(sent, texts[j])

\* The page sent the payload, and the route sends it on: it is connected to
\* the real server and no listener of route.client prevents the default.
HeadedForServer(m, text) ==
    /\ InSeq(text, m.calls.sent)
    /\ ~m.handler.matched \/ m.handler.connects
    /\ \A i \in DOMAIN m.handler.clientListeners : text \notin m.handler.clientListeners[i]

\* Once the close of the page is on the wire, so is, before it, every
\* message the page sent that was headed for the real server.
ArrivedBeforeClose(m) ==
    \A k \in DOMAIN m.native.wire :
        m.native.wire[k].type = "close" =>
            \A n \in DOMAIN PageTexts :
                HeadedForServer(m, PageTexts[n]) =>
                    \E i \in 1..(k - 1) :
                        /\ m.native.wire[i].type = "message"
                        /\ m.native.wire[i].data.text = PageTexts[n]

\* The page runs a serverSend for its registered socket, which has a native
\* socket.
PageTakesServerSend ==
    /\ pc = "ws"
    /\ Delivered(mock.toPage, "serverSend")
    /\ mock'.toPage = Tail(mock.toPage)
    /\ mock.ws.registered
    /\ mock.ws.hasWs

\* The native socket opens while the page socket still listens to it.
RealConnectionOpens ==
    /\ pc = "ws"
    /\ mock.ws.hasWs
    /\ mock.native.readyState = CONNECTING
    /\ mock'.native.readyState = OPEN

\* What a step does with the messages for the real server.
SentOnInOrder ==
    /\ PageTakesServerSend =>
          LET message == dataToMessage(Head(mock.toPage).data, mock.ws.binaryType)
          IN  CASE mock.native.readyState = CONNECTING ->
                    /\ mock'.ws.wsBufferedMessages = Append(mock.ws.wsBufferedMessages, message)
                    /\ mock'.native.wire = mock.native.wire
                [] mock.native.readyState = OPEN ->
                    /\ mock'.native.wire =
                            Append(mock.native.wire, Frame("message", message, Undef, NoReason))
                    /\ mock'.ws.wsBufferedMessages = mock.ws.wsBufferedMessages
                [] OTHER ->
                    /\ mock'.native.wire = mock.native.wire
                    /\ mock'.ws.wsBufferedMessages = mock.ws.wsBufferedMessages
    /\ RealConnectionOpens =>
          /\ mock'.native.wire = mock.native.wire \o MessageFrames(mock.ws.wsBufferedMessages)
          /\ mock'.ws.wsBufferedMessages = <<>>
    /\ mock'.native.readyState = CONNECTING => mock'.native.wire = <<>>
    /\ InOrderSent(Outgoing(mock'), PageTexts)
    /\ InOrderSent(Outgoing(mock'), HandlerServerTexts)
    /\ ~mock'.calls.serverClosed => ArrivedBeforeClose(mock')

\* C20 as stated: messages headed for the real server reach it in the order
\* they were sent, each once; those given to route.server.send() before the
\* real connection opened are buffered and flushed in order when it opens;
\* the messages the page sent before close() are on the wire before the
\* close.  For every kind of message.
C20_InOrderOnceBeforeClose ==
    [][pc' = "ws" => SentOnInOrder]_vars

\* The same as long as the page has sent no Blob.
C20_StringsInOrderOnceBeforeClose ==
    [][(pc' = "ws" /\ mock'.calls.blobs = 0) => SentOnInOrder]_vars

\* The 'close' events among the events a side of the route has dispatched.
CloseEventsOf(events) == {i \in DOMAIN events : events[i].type = "close"}

LastIsUndefinedClose(events) ==
    /\ events # <<>>
    /\ events[Len(events)].type = "close"
    /\ events[Len(events)].code = Undef
    /\ events[Len(events)].reason = NoReason

\* The frame navigates in this step, the route being registered.
RouteFrameNavigates ==
    /\ pc = "ws"
    /\ ~mock.calls.navigated
    /\ mock'.calls.navigated
    /\ mock.route.created
    /\ mock.route.registered

\* Node takes a message of the page for the route's id after the frame of
\* the route has navigated.
LaterMessageTaken ==
    /\ pc = "ws"
    /\ mock.calls.navigated
    /\ mock.calls.routed
    /\ mock.toNode # <<>>
    /\ mock'.toNode = Tail(mock.toNode)

MaxConnects == 2
MaxHostCalls == 2
MaxPageCalls == 1

\* The objects page code passes to connect(), as the sets of their methods.
ExposedObjects == {{"subtract", "divide"}, {"subtract"}}

\* The methods the host calls over a channel, and those page code calls.
HostCallMethods == {"subtract", "divide"}
PageCallMethods == {"add", "foo"}

\* The object the host's callback exposes to the page.
ExposedToThePage == {"add", "multiply"}

NotExposedFromThePage(method) == <<"Method", method, "is not exposed from the page">>
NotExposedToThePage(method) == <<"Method", method, "is not exposed to the page">>

\* BindingPayload (page to host) and BindingEvalPayload (host to page).
BindingPayload(kind, channelId, method, callId) ==
    [kind |-> kind, channelId |-> channelId, method |-> method, callId |-> callId]

BindingEvalPayload(kind, channelId, method, callId, error) ==
    [kind |-> kind, channelId |-> channelId, method |-> method, callId |-> callId,
     error |-> error]

\* Lines 194-202, 232-239, 268-269: the state of one run of the script, the
\* connect payload sent before page code is given connect(). The pending
\* exposedObjectPromise is <<>>, the resolved one holds its value.
connectScriptChannel ==
    [page |-> [channelId |-> 0, exposedObjectPromise |-> <<>>, connected |-> "pending",
               lastCallId |-> 0, calls |-> {}, waiting |-> <<>>,
               connectCalls |-> <<>>, settled |-> <<>>],
     host |-> [guids |-> 0, channels |-> {}, callback |-> "none", connects |-> 0,
               calls |-> 0, results |-> <<>>],
     toHost |-> <<BindingPayload("connect", 0, E, 0)>>,
     toPage |-> <<>>,
     dispatched |-> <<>>]

\* Lines 263-265: the dispatcher runs a call of the host on the exposed object.
performOn(c, method, exposedObject) ==
    [c EXCEPT !.dispatched = Append(@, [method |-> method, object |-> exposedObject,
                                         channelId |-> c.page.channelId]),
              !.host.results = Append(@, IF method \in exposedObject
                                             THEN <<"result", method>>
                                             ELSE NotExposedFromThePage(method))]

RECURSIVE performAll(_, _, _)
performAll(c, methods, exposedObject) ==
    IF methods = <<>> THEN c
    ELSE performAll(performOn(c, Head(methods), exposedObject), Tail(methods), exposedObject)

\* Lines 271-275: connect(exposedObject) called by page code. Resolving
\* exposedObjectPromise has an effect the first time only; the dispatches
\* awaiting it (line 262) then go on.
connectCall(c, exposedObject) ==
    LET first == c.page.exposedObjectPromise = <<>>
        c1 == [c EXCEPT !.page.connectCalls = Append(@, exposedObject),
                        !.page.exposedObjectPromise = IF first THEN <<exposedObject>> ELSE @,
                        !.page.waiting = IF first THEN <<>> ELSE @]
    IN IF first THEN performAll(c1, c.page.waiting, exposedObject) ELSE c1

\* Lines 208-228: a method of proxyObject called by page code.
proxyCall(c, method) ==
    LET callId == c.page.lastCallId + 1
    IN [c EXCEPT !.page.lastCallId = callId,
                 !.page.calls = @ \cup {callId},
                 !.toHost = Append(@, BindingPayload("call", c.page.channelId, method, callId))]

\* Lines 240-266: the dispatcher registered for the script.
dispatcher(c, payload) ==
    IF payload.kind = "connected"
    THEN [c EXCEPT !.page.channelId = payload.channelId,
                   !.page.connected = IF @ # "pending" THEN @
                                      ELSE IF payload.error = E THEN "resolved"
                                      ELSE "rejected"]
    ELSE IF payload.kind = "result"
    THEN [c EXCEPT !.page.calls = @ \ {payload.callId},
                   !.page.settled = IF payload.callId \in c.page.calls
                                        THEN Append(@, <<payload.callId, payload.error>>)
                                        ELSE @]
    ELSE IF c.page.exposedObjectPromise = <<>>
    THEN [c EXCEPT !.page.waiting = Append(@, payload.method)]
    ELSE performOn(c, payload.method, c.page.exposedObjectPromise[1])

\* context.evaluate(deliver..., arg)
evaluate(c, payload) == [c EXCEPT !.toPage = Append(@, payload)]

\* Lines 75-102: dispatchBinding of a connect payload, up to the await of
\* the channel callback.
dispatchConnect(c) ==
    LET channelId == c.host.guids + 1
    IN [c EXCEPT !.host.guids = channelId,
                 !.host.channels = @ \cup {channelId},
                 !.host.callback = "running",
                 !.host.connects = @ + 1]

\* Lines 104-105: the callback has resolved.
callbackResolved(c) ==
    evaluate([c EXCEPT !.host.callback = "resolved"],
             BindingEvalPayload("connected", c.host.guids, E, 0, E))

\* Lines 106-112: the callback has thrown.
callbackThrew(c, message) ==
    evaluate([c EXCEPT !.host.callback = "threw",
                       !.host.channels = @ \ {c.host.guids}],
             BindingEvalPayload("connected", c.host.guids, E, 0, message))

\* Lines 116-129: dispatchBinding of a call of the page; channel.oncall
\* calls the method on the object the callback exposed.
dispatchCall(c, payload) ==
    IF payload.channelId \in c.host.channels
    THEN evaluate(c, BindingEvalPayload("result", 0, E, payload.callId,
                    IF payload.method \in ExposedToThePage
                        THEN E ELSE NotExposedToThePage(payload.method)))
    ELSE c

\* Lines 65-129.
dispatchBinding(c, payload) ==
    IF payload.kind = "connect" THEN dispatchConnect(c) ELSE dispatchCall(c, payload)

\* Lines 82-84: channel.call(method, args) made by the host.
channelCall(c, method) ==
    evaluate([c EXCEPT !.host.calls = @ + 1],
             BindingEvalPayload("call", 0, method, 0, E))

InitChan ==
    /\ dom = CollDom
    /\ target = Len(CollDom.parent)
    /\ options = Options(FALSE, FALSE, Undef)
    /\ pc = "chan"
    /\ result = NoResult
    /\ result2 = NoResult
    /\ coll = <<>>
    /\ offered = <<>>
    /\ cands = {}
    /\ parsed = NoParsed
    /\ queried = NoQueried
    /\ mock = NoMock
    /\ chan = connectScriptChannel
    /\ runner = NoRunner
    /\ memo = NoMemo
    /\ pointer = NoPointer

ChanStep(c) ==
    /\ chan' = c
    /\ UNCHANGED <<dom, target, options, pc, result, result2, coll, offered, cands,
                   roleVars, mock, runner, memo, pointer>>

\* Page code calls connect(exposedObject).
PageConnect ==
    /\ pc = "chan"
    /\ Len(chan.page.connectCalls) < MaxConnects
    /\ \E exposedObject \in ExposedObjects : ChanStep(connectCall(chan, exposedObject))

\* Page code calls a method of the proxy a resolved connect() returned.
PageCall ==
    /\ pc = "chan"
    /\ chan.page.connectCalls # <<>>
    /\ chan.page.connected = "resolved"
    /\ chan.page.lastCallId < MaxPageCalls
    /\ \E method \in PageCallMethods : ChanStep(proxyCall(chan, method))

\* The binding is called in the host with the next payload of the page.
DispatchBinding ==
    /\ pc = "chan"
    /\ chan.toHost # <<>>
    /\ chan.host.callback # "running"
    /\ ChanStep(dispatchBinding([chan EXCEPT !.toHost = Tail(@)], Head(chan.toHost)))

\* The host calls a method over the channel, in the callback or after it.
HostCall ==
    /\ pc = "chan"
    /\ chan.host.callback \in {"running", "resolved"}
    /\ chan.host.calls < MaxHostCalls
    /\ \E method \in HostCallMethods : ChanStep(channelCall(chan, method))

CallbackResolved ==
    /\ pc = "chan"
    /\ chan.host.callback = "running"
    /\ ChanStep(callbackResolved(chan))

CallbackThrew ==
    /\ pc = "chan"
    /\ chan.host.callback = "running"
    /\ ChanStep(callbackThrew(chan, <<"Oh my">>))

\* The page runs the next evaluation of the host.
Dispatcher ==
    /\ pc = "chan"
    /\ chan.toPage # <<>>
    /\ ChanStep(dispatcher([chan EXCEPT !.toPage = Tail(@)], Head(chan.toPage)))

NextChan ==
    \/ PageConnect \/ PageCall \/ DispatchBinding \/ HostCall
    \/ CallbackResolved \/ CallbackThrew \/ Dispatcher

SpecChan == InitChan /\ [][NextChan]_vars

\* Nothing is in flight between page and host and no callback is running.
ChanSettled ==
    /\ pc = "chan"
    /\ chan.toHost = <<>>
    /\ chan.toPage = <<>>
    /\ chan.host.callback # "running"

\* C22: once nothing is in flight, the host-side connect callback has run
\* once per connect() call made by page code, and every call the host made
\* over the channel opened for the k-th connect() call was dispatched to the
\* object passed to that k-th call.
C22_ChannelPerConnect ==
    (ChanSettled /\ chan.page.connectCalls # <<>>) =>
        /\ chan.host.connects = Len(chan.page.connectCalls)
        /\ \A i \in DOMAIN chan.dispatched :
              /\ chan.dispatched[i].channelId \in DOMAIN chan.page.connectCalls
              /\ chan.dispatched[i].object =
                     chan.page.connectCalls[chan.dispatched[i].channelId]

\* ---------------------------------------------------------------------------
\* TimeoutRunner (playwright-test/src/timeoutRunner.ts). Time is the value
\* of monotonicTime(), in ticks.

MaxTime == 4
MaxRuns == 2
MaxUpdates == 2

\* The timeouts given to updateCurrentSlotTimeout and to custom time slots.
Timeouts == {0, 1, 3}

\* TimeoutData
TimeoutData(timeout, elapsed) == [timeout |-> timeout, elapsed |-> elapsed]

NotRunning == [active |-> FALSE, slot |-> "default", start |-> 0, armed |-> FALSE,
               deadline |-> 0, rejected |-> FALSE]

\* new TimeoutRunner() (lines 40-41) and one custom TimeSlot, whose
\* timeoutData is 'shared' or its own. spent is the time during which each
\* TimeoutData was the one of the running slot; outcomes are the settled runs.
NewRunner(shared, timeout) ==
    [now |-> 0,
     data |-> [default |-> TimeoutData(0, 0), custom |-> TimeoutData(timeout, 0)],
     shared |-> shared,
     running |-> NotRunning,
     runs |-> 0, updates |-> 0,
     spent |-> [default |-> 0, custom |-> 0],
     outcomes |-> <<>>]

\* Line 105: the TimeoutData of the running slot.
timeoutDataOf(r) ==
    IF r.running.slot = "custom" /\ ~r.shared THEN "custom" ELSE "default"

updateTimeout_IgnoresElapsed(r, timeout) ==
    LET key == timeoutDataOf(r)
        elapsed == r.data[key].elapsed + (r.now - r.running.start)
        given == IF timeout = Undef THEN r.data[key].timeout ELSE timeout
        r1 == [r EXCEPT !.running.armed = FALSE,
                        !.data[key].elapsed = elapsed,
                        !.running.start = r.now]
    IN IF given = 0 THEN r1
       ELSE [r1 EXCEPT !.running.armed = TRUE, !.running.deadline = r.now + given]

\* _updateTimeout(running, timeout), lines 97-122; timeout Undef is undefined.
updateTimeout(r, timeout) ==
    LET key == timeoutDataOf(r)
        elapsed == r.data[key].elapsed + (r.now - r.running.start)
        given == IF timeout = Undef THEN r.data[key].timeout ELSE timeout
        remaining == given - elapsed
        r1 == [r EXCEPT !.running.armed = FALSE,
                        !.data[key].elapsed = elapsed,
                        !.running.start = r.now]
    IN IF given = 0 THEN r1
       ELSE IF remaining <= 0 THEN [r1 EXCEPT !.running.rejected = TRUE]
       ELSE [r1 EXCEPT !.running.armed = TRUE, !.running.deadline = r.now + remaining]

\* Lines 89-94: the race has settled; finally.
settle(r, outcome) ==
    LET r1 == updateTimeout(r, 0)
    IN [r1 EXCEPT !.running = NotRunning,
                  !.outcomes = Append(@, [slot |-> r.running.slot,
                                          outcome |-> outcome,
                                          timeout |-> r1.data[timeoutDataOf(r)].timeout,
                                          elapsed |-> r1.data[timeoutDataOf(r)].elapsed])]

\* timeoutPromise.reject(new TimeoutRunnerError()) settles the race of line 84.
rejectIfTimedOut(r) ==
    IF r.running.rejected THEN settle(r, "TimeoutRunnerError") ELSE r

\* run(cb, timeSlot), lines 76-88, cb pending.
run(r, slot) ==
    rejectIfTimedOut(updateTimeout(
        [r EXCEPT !.running = [NotRunning EXCEPT !.active = TRUE, !.slot = slot,
                                                  !.start = r.now],
                  !.runs = @ + 1],
        Undef))

\* updateCurrentSlotTimeout(timeout), lines 52-62.
updateCurrentSlotTimeout(r, timeout) ==
    IF ~r.running.active
    THEN [r EXCEPT !.data.default.timeout = timeout]
    ELSE LET r1 == updateTimeout(r, 0)
             own == r1.running.slot = "custom" /\ r1.shared
             r2 == IF own
                   THEN [r1 EXCEPT !.shared = FALSE,
                                   !.data.custom = TimeoutData(0, 0),
                                   !.spent.custom = 0]
                   ELSE r1
             r3 == [r2 EXCEPT !.data[timeoutDataOf(r2)].timeout = timeout]
         IN rejectIfTimedOut(updateTimeout(r3, Undef))

\* Line 121: the timer's callback.
timerFired(r) == rejectIfTimedOut([r EXCEPT !.running.armed = FALSE,
                                            !.running.rejected = TRUE])

\* The timer of the running slot is due.
TimerDue(r) == r.running.active /\ r.running.armed /\ r.now >= r.running.deadline

InitRunner ==
    /\ dom = CollDom
    /\ target = Len(CollDom.parent)
    /\ options = Options(FALSE, FALSE, Undef)
    /\ pc = "runner"
    /\ result = NoResult
    /\ result2 = NoResult
    /\ coll = <<>>
    /\ offered = <<>>
    /\ cands = {}
    /\ parsed = NoParsed
    /\ queried = NoQueried
    /\ mock = NoMock
    /\ chan = NoChan
    /\ runner \in {NewRunner(TRUE, 0)} \cup {NewRunner(FALSE, timeout) : timeout \in Timeouts}
    /\ memo = NoMemo
    /\ pointer = NoPointer

RunnerStep(r) ==
    /\ runner' = r
    /\ UNCHANGED <<dom, target, options, pc, result, result2, coll, offered, cands,
                   roleVars, mock, chan, memo, pointer>>

Run ==
    /\ pc = "runner"
    /\ ~runner.running.active
    /\ runner.runs < MaxRuns
    /\ \E slot \in {"default", "custom"} : RunnerStep(run(runner, slot))

\* cb settles first.
CbSettles ==
    /\ pc = "runner"
    /\ runner.running.active
    /\ RunnerStep(settle(runner, "cb"))

UpdateCurrentSlotTimeout ==
    /\ pc = "runner"
    /\ runner.updates < MaxUpdates
    /\ \E timeout \in Timeouts :
          RunnerStep(updateCurrentSlotTimeout([runner EXCEPT !.updates = @ + 1], timeout))

TimerFires ==
    /\ pc = "runner"
    /\ TimerDue(runner)
    /\ RunnerStep(timerFired(runner))

\* Time passes; a timer that is due runs before any more of it does.
Tick ==
    /\ pc = "runner"
    /\ runner.now < MaxTime
    /\ ~TimerDue(runner)
    /\ RunnerStep([runner EXCEPT !.now = @ + 1,
                                 !.spent[timeoutDataOf(runner)] =
                                     IF runner.running.active THEN @ + 1 ELSE @])

NextRunner == Run \/ CbSettles \/ UpdateCurrentSlotTimeout \/ TimerFires \/ Tick

SpecRunner == InitRunner /\ [][NextRunner]_vars

\* The time slot of the running cb, and the time spent on it so far.
RunningData == runner.data[timeoutDataOf(runner)]
RunningSpent == runner.spent[timeoutDataOf(runner)]

OwnValueTable(attr) ==
    ListMap(queryAll(EffRoot), LAMBDA e : normalizeWhiteSpace(getAttribute(e, attr)),
            LAMBDA e : getAttribute(e, attr) # E)

\* C24: after indexing, the table of the configured test id, the tables of
\* id, data-testid, data-test-id and data-test, and the title table map each
\* value to exactly the elements in scope whose own attribute has that
\* value, in document order.
C24_TablesFileOwnValues ==
    Generated =>
        /\ CallCtx.tables.testIdAttributeToElements = OwnValueTable(options.testIdAttributeName)
        /\ \A attr \in {"id", "data-testid", "data-test-id", "data-test"} :
              CallCtx.tables.attrToElements[attr] = OwnValueTable(attr)
        /\ CallCtx.tables.titleToElements = OwnValueTable("title")

(***************************************************************************)
(* Documents whose elements carry alt, placeholder and title.              *)
(***************************************************************************)
AttrKinds ==
    { [Elem("IMG") EXCEPT !.alt = <<"a">>],
      [Elem("INPUT") EXCEPT !.placeholder = <<"b">>],
      [Elem("DIV") EXCEPT !.title = <<"c">>],
      [Elem("INPUT") EXCEPT !.alt = <<"a">>, !.placeholder = <<"a">>] }

AttrDocuments ==
    UNION {{[parent |-> p, el |-> <<Html>> \o k] : p \in ParentVectors(n + 1), k \in [1..n -> AttrKinds]}
           : n \in 1..MaxElements}

InitAttr ==
    /\ dom \in AttrDocuments
    /\ target \in 1..Len(dom.parent)
    /\ options = Options(FALSE, FALSE, Undef)
    /\ pc = "start"
    /\ result = NoResult
    /\ result2 = NoResult
    /\ coll = <<>>
    /\ offered = <<>>
    /\ cands = {}
    /\ parsed = NoParsed
    /\ queried = NoQueried
    /\ mock = NoMock
    /\ chan = NoChan
    /\ runner = NoRunner
    /\ memo = NoMemo
    /\ pointer = NoPointer

SpecAttr == InitAttr /\ [][Next]_vars

\* The first tokens of the attribute candidates _tryInternalEngines offers
\* for the target.
AttrTokens ==
    {tryInternalEngines(CallCtx, EffRoot, target)[n].tokens[1] :
        n \in {i \in 1..Len(tryInternalEngines(CallCtx, EffRoot, target)) :
                  tryInternalEngines(CallCtx, EffRoot, target)[i].tokens[1].engine = "attr"}}

\* C25: every attribute candidate offered for the target names an attribute
\* of the target that has the candidate's value (as written or with its
\* white space normalized), and querying the rendered token in the scope
\* finds the target.
C25_AttrTokenNamesItsAttribute ==
    Generated =>
        \A token \in AttrTokens :
            /\ token.val \in {getAttribute(target, token.str),
                              normalizeWhiteSpace(getAttribute(target, token.str))}
            /\ InSeq(target, queryEngineAll(options.testIdAttributeName, EffRoot,
                                            stringifyToken(token)))

(***************************************************************************)
(* Documents whose texts can overlap: "aa" next to "a" reads "aaa".        *)
(***************************************************************************)
TextKinds ==
    { Elem("DIV"),
      [Elem("DIV") EXCEPT !.text = <<"a", "a">>],
      [Elem("DIV") EXCEPT !.text = <<"a">>],
      [Elem("DIV") EXCEPT !.text = <<"b">>] }

TextDocuments ==
    UNION {{[parent |-> p, el |-> <<Html>> \o k] : p \in ParentVectors(n + 1), k \in [1..n -> TextKinds]}
           : n \in 1..MaxElements}

InitText ==
    /\ dom \in TextDocuments
    /\ target \in 1..Len(dom.parent)
    /\ options = Options(FALSE, FALSE, Undef)
    /\ pc = "start"
    /\ result = NoResult
    /\ result2 = NoResult
    /\ coll = <<>>
    /\ offered = <<>>
    /\ cands = {}
    /\ parsed = NoParsed
    /\ queried = NoQueried
    /\ mock = NoMock
    /\ chan = NoChan
    /\ runner = NoRunner
    /\ memo = NoMemo
    /\ pointer = NoPointer

SpecText == InitText /\ [][Next]_vars

\* The lax text of e: its lower-cased text, truncated.
LaxTextOf(e) == substring(getElementText(e).lowerCase, 0, kMaxTextLength)

\* _tryText offers the lax candidate for e in the scope of root.
LaxOffered(root, e) ==
    \E i \in 1..Len(tryText(CallCtx, root, e)) :
        /\ tryText(CallCtx, root, e)[i].tokens[1].engine = "text"
        /\ ~tryText(CallCtx, root, e)[i].tokens[1].exact
        /\ tryText(CallCtx, root, e)[i].tokens[1].val = LaxTextOf(e)

\* C26: where the text generator runs for an element with text, it offers
\* the lax text candidate if and only if the lax text occurs at exactly one
\* place in the scope root's lower-cased text, overlapping places counted,
\* and in the text of no direct child of the element.
C26_LaxOfferedIffOnce ==
    pc # "start" =>
        \A e \in Elements : \A root \in ScopesOf(e) :
            (TextAllowed(e) /\ LaxTextOf(e) # E) =>
                (LaxOffered(root, e) <=>
                    /\ Occurrences(getElementText(rootTextElement(root)).lowerCase, LaxTextOf(e)) = 1
                    /\ \A c \in Elements :
                          dom.parent[c] = e => ~includes(getElementText(c).lowerCase, LaxTextOf(e)))

\* The proper ancestors of the target below the scope root whose normalized
\* text is the target's.
SameTextAncestors ==
    SelectSeq(properAncestorsBelow(EffRoot, target),
              LAMBDA parent : getElementText(parent).full = getElementText(target).full)

\* C27: with retargetForText set, the collection generateSelector ends up
\* with has folded in the exploration anchored at every proper ancestor of
\* the target below the root whose normalized text equals the target's:
\* folding that exploration's best in once more changes nothing.
C27_SameTextAncestorsExplored ==
    (Generated /\ options.retargetForText) =>
        \A i \in 1..Len(SameTextAncestors) :
            updateWithCollection(bestCollection(CallCtx, EffRoot, target),
                                 generateWithRelatives(CallCtx, EffRoot, SameTextAncestors[i]))
                = bestCollection(CallCtx, EffRoot, target)

\* The relatives the exploration connects to an ancestor by a parent path:
\* the shallow descendants of the ancestor other than itself.
RelativesBelow(ancestor) ==
    {shallowDescendants(ancestor, kShallowDepth, kShallowTotal, <<>>)[i] :
        i \in 1..Len(shallowDescendants(ancestor, kShallowDepth, kShallowTotal, <<>>))}
        \ {ancestor}

\* C28: the parent path from a relative up to its ancestor has one '..'
\* step per tree level between them, and its score is the parent-hop cost
\* times the number of steps.
C28_ParentPathCostsPerHop ==
    pc # "start" =>
        \A ancestor \in Elements : \A relative \in RelativesBelow(ancestor) :
            /\ generateParent(relative, ancestor).tokens[1].hops = depthBelow(ancestor, relative)
            /\ generateParent(relative, ancestor).score
                   = kXPathParentsScore * depthBelow(ancestor, relative)

\* C29: a call of generateSelector leaves the retargetForText and
\* omitTextFrom fields of the caller's options object as they were.
C29_OptionsNotOverwritten ==
    [][/\ options'.retargetForText = options.retargetForText
       /\ options'.omitTextFrom = options.omitTextFrom]_vars

\* The structural path of `call` (a root and an element below it) is
\* computed: line 633 calls the css() of its fallback token while the
\* returned selector is written.
Materialized(call) ==
    /\ pc # "start"
    /\ Returned(result)
    /\ \E i \in 1..Len(result.selector) :
          /\ result.selector[i].engine = "css"
          /\ result.selector[i].css.path
          /\ result.selector[i].css = generateCSSSelector(call[1], call[2])

\* The fallback candidate of `call` is made (line 279).
FallbackMade(call, allowTextEngine) ==
    InSeq(lazyCSSSelector(call[1], call[2]),
          offeredWithoutChaining(CallCtx, call[1], call[2], allowTextEngine))

\* No generator gave a candidate in the call.
NoneProduced(call, allowTextEngine) ==
    generatorCandidates(CallCtx, call[1], call[2], allowTextEngine) = <<>>

\* C30: in every call of the generators for an element, the fallback
\* candidate is made only when no generator gave a candidate, and a
\* structural path written into the returned selector is the path of a call
\* in which none did: where another generator produced a result, the
\* fallback path of that call is never computed.
C30_FallbackOnlyWhenNothingElse ==
    pc # "start" =>
        /\ \A call \in GeneratorCalls : \A allow \in BOOLEAN :
              FallbackMade(call, allow) => NoneProduced(call, allow)
        /\ \A i \in 1..Len(result.selector) :
              (result.selector[i].engine = "css" /\ result.selector[i].css.path) =>
                  \E call \in GeneratorCalls : \E allow \in BOOLEAN :
                      /\ Materialized(call)
                      /\ FallbackMade(call, allow)
                      /\ NoneProduced(call, allow)

\* The returned selector holds the structural path of the target, for which
\* no generator gave a candidate, while a generator did for another element
\* of the document, whose path is not computed.
C30_Witness ==
    /\ Generated
    /\ EffRoot = Document
    /\ Materialized(<<EffRoot, target>>)
    /\ NoneProduced(<<EffRoot, target>>, TRUE)
    /\ \E call \in GeneratorCalls :
          /\ ~NoneProduced(call, TRUE)
          /\ ~FallbackMade(call, TRUE)
          /\ ~Materialized(call)

\* The role tokens of the candidates the generators offer in every call the
\* orchestration makes.
GeneratorRoleTokens ==
    UNION {{c.tokens[i] : i \in {k \in 1..Len(c.tokens) : c.tokens[k].engine = "role"}} :
           c \in GeneratorCandidates}

\* C31: every role token the generators offer, rendered by _stringifyToken
\* and parsed, is queried by RoleEngine.queryAll without an error, the
\* tokens with a string-valued accessible name included.
C31_RoleTokensAccepted ==
    pc # "start" =>
        \A token \in GeneratorRoleTokens :
            roleQueryAll(EffRoot, parseRolePart(stringifyToken(token))).threw = ""

\* The positions in what _tryRole offers of the role+name candidates with the
\* given exactness.
NamedRoleAt(got, exact) ==
    {i \in 1..Len(got) :
        /\ got[i].tokens[1].engine = "role"
        /\ got[i].tokens[1].named
        /\ got[i].tokens[1].exact = exact}

\* The elements in the scope that share the role of e and whose accessible
\* name contains the name of e, whatever the case.
LaxNameMatches(root, e) ==
    {x \in Elements :
        /\ isInsideScope(root, x)
        /\ getElementRole(x) = getElementRole(e)
        /\ includes(toUpperCase(accessibleNameOf(x)), toUpperCase(accessibleNameOf(e)))}

\* C32: in every call of _tryRole that builds a role+name candidate, the
\* lax-name candidate comes first and is alone of its kind, and the exact-name
\* candidate is offered, after it, if and only if the lax name matches more
\* than one element of that role in the scope.
C32_ExactOnlyWhenLaxAmbiguous ==
    pc # "start" =>
        \A call \in GeneratorCalls :
            LET got == tryRole(CallCtx, call[1], call[2])
                lax == NamedRoleAt(got, FALSE)
                exact == NamedRoleAt(got, TRUE)
            IN /\ exact # {} => lax # {}
               /\ lax # {} =>
                    /\ Cardinality(lax) = 1
                    /\ Cardinality(exact) <= 1
                    /\ \A i \in lax : \A j \in exact : i < j
                    /\ exact # {} <=> Cardinality(LaxNameMatches(call[1], call[2])) > 1

\* A call where the lax name is unique, and no exact candidate follows.
C32_LaxAlone ==
    /\ pc # "start"
    /\ \E call \in GeneratorCalls :
          /\ NamedRoleAt(tryRole(CallCtx, call[1], call[2]), FALSE) # {}
          /\ NamedRoleAt(tryRole(CallCtx, call[1], call[2]), TRUE) = {}

\* A call where the lax name matches two elements of the role, and the exact
\* candidate follows the lax one.
C32_Witness ==
    /\ pc # "start"
    /\ \E call \in GeneratorCalls :
          /\ NamedRoleAt(tryRole(CallCtx, call[1], call[2]), FALSE) # {}
          /\ NamedRoleAt(tryRole(CallCtx, call[1], call[2]), TRUE) # {}
          /\ Cardinality(LaxNameMatches(call[1], call[2])) > 1

\* The accessible name of e is derived from the omitTextFrom element or from
\* an element inside it.
NameFromOmittedText(e) ==
    /\ options.omitTextFrom # Undef
    /\ \E x \in textFromOf(e) :
          x = options.omitTextFrom \/ contains(options.omitTextFrom, x)

\* _tryRole runs for e and finds a role.
RoleTried(e) == ~options.omitInternalEngines /\ getElementRole(e) # NoRole

\* The positions in what _tryRole offers of the role-only candidates.
RoleOnlyAt(got) ==
    {i \in 1..Len(got) : got[i].tokens[1].engine = "role" /\ ~got[i].tokens[1].named}

\* C33: in every call of _tryRole for an element with a role whose accessible
\* name is derived from the omitTextFrom element or from an element inside
\* it, no role+name candidate is offered, and the role-only candidate is.
C33_NoNameFromOmittedText ==
    pc # "start" =>
        \A call \in GeneratorCalls :
            (RoleTried(call[2]) /\ NameFromOmittedText(call[2])) =>
                LET got == tryRole(CallCtx, call[1], call[2])
                IN /\ NamedRoleAt(got, FALSE) = {}
                   /\ NamedRoleAt(got, TRUE) = {}
                   /\ Cardinality(RoleOnlyAt(got)) = 1

\* The name of an ancestor of the omitTextFrom element comes from its text:
\* the ancestor gets the role-only candidate alone, while another element
\* of the document gets a role+name candidate.
C33_Witness ==
    /\ pc # "start"
    /\ \E call \in GeneratorCalls :
          /\ RoleTried(call[2])
          /\ NameFromOmittedText(call[2])
          /\ call[2] # options.omitTextFrom
          /\ Len(tryRole(CallCtx, call[1], call[2])) = 1
    /\ \E call \in GeneratorCalls :
          NamedRoleAt(tryRole(CallCtx, call[1], call[2]), FALSE) # {}

\* e is the omitTextFrom element, lies inside it, or contains it.
AroundOmittedText(e) ==
    /\ options.omitTextFrom # Undef
    /\ \/ e = options.omitTextFrom
       \/ contains(options.omitTextFrom, e)
       \/ contains(e, options.omitTextFrom)

HasTextToken(candidate) ==
    \E i \in 1..Len(candidate.tokens) : candidate.tokens[i].engine = "text"

\* What _generateWithoutChaining offers for the call, in either phase.
OfferedIn(call) ==
    UNION {{s[n] : n \in 1..Len(s)} :
           s \in {offeredWithoutChaining(CallCtx, call[1], call[2], allow) : allow \in BOOLEAN}}

\* C34: in every call of the generators, with or without the text engine
\* allowed, no candidate with a text token is offered for an element that is
\* the omitTextFrom element, lies inside it or contains it.
C34_NoTextAroundOmittedText ==
    pc # "start" =>
        \A call \in GeneratorCalls :
            AroundOmittedText(call[2]) => \A c \in OfferedIn(call) : ~HasTextToken(c)

\* An element with text of its own contains the omitTextFrom element and
\* gets no text token, while an element apart from it gets one.
C34_Witness ==
    /\ pc # "start"
    /\ ~options.omitInternalEngines
    /\ \E call \in GeneratorCalls :
          /\ call[2] # options.omitTextFrom
          /\ contains(call[2], options.omitTextFrom)
          /\ getElementText(call[2]).full # E
          /\ \A c \in OfferedIn(call) : ~HasTextToken(c)
    /\ \E call \in GeneratorCalls :
          /\ ~AroundOmittedText(call[2])
          /\ \E c \in OfferedIn(call) : HasTextToken(c)

(***************************************************************************)
(* shallowDescendants on its own, lines 680-695, as the loop of            *)
(* _generateWithRelatives applies it (lines 224-226): to the target, then  *)
(* to each of its ancestors below the root.  The documents are every tree  *)
(* of a few elements, and trees with more than a hundred elements within   *)
(* four levels of the document element: a chain of MaxChain elements,      *)
(* followed by CombWidth elements with CombFanout children each.           *)
(***************************************************************************)
MaxTreeElements == 6
MaxChain == 6
CombWidth == 10
CombFanout == 10

PlainElements(n) == [i \in 1..n |-> IF i = 1 THEN Html ELSE Elem("DIV")]

\* Document order: the document element, the chain, then each comb tooth
\* followed by its children.
CombParents(stem, width, fanout) ==
    [n \in 1..(1 + stem + width * (fanout + 1)) |->
        IF n = 1 THEN Document
        ELSE IF n <= 1 + stem THEN n - 1
        ELSE IF (n - 2 - stem) % (fanout + 1) = 0 THEN 1
        ELSE n - ((n - 2 - stem) % (fanout + 1))]

CombDocument(stem, width, fanout) ==
    [parent |-> CombParents(stem, width, fanout),
     el |-> PlainElements(1 + stem + width * (fanout + 1))]

TreeDocuments ==
    UNION {{[parent |-> p, el |-> PlainElements(n)] : p \in ParentVectors(n)}
           : n \in 1..MaxTreeElements}
    \cup {CombDocument(stem, CombWidth, fanout) :
            stem \in {0, MaxChain}, fanout \in {0, CombFanout}}

NoRelatives == [ancestor |-> Undef, relatives |-> <<>>]

\* The relatives examined for one ancestor, line 226.
relativesOf(ancestor) ==
    [ancestor |-> ancestor,
     relatives |-> shallowDescendants(ancestor, kShallowDepth, kShallowTotal, <<>>)]

InitTree ==
    /\ dom \in TreeDocuments
    /\ target \in 1..Len(dom.parent)
    /\ options = Options(FALSE, FALSE, Undef)
    /\ pc = "start"
    /\ result = NoRelatives
    /\ result2 = NoResult
    /\ coll = <<>>
    /\ offered = <<>>
    /\ cands = {}
    /\ parsed = NoParsed
    /\ queried = NoQueried
    /\ mock = NoMock
    /\ chan = NoChan
    /\ runner = NoRunner
    /\ memo = NoMemo
    /\ pointer = NoPointer

\* Line 224, first iteration: ancestor = targetElement.
FirstAncestor ==
    /\ pc = "start"
    /\ result' = relativesOf(target)
    /\ pc' = "relatives"
    /\ UNCHANGED <<dom, target, options, result2, coll, offered, cands>>
    /\ UNCHANGED <<roleVars, mock, chan, runner, memo, pointer>>

\* Line 224, later iterations: ancestor = parentElementOrShadowHost(ancestor),
\* while there is one and it is not the root.
NextAncestor ==
    /\ pc = "relatives"
    /\ parentElementOrShadowHost(result.ancestor) # Undef
    /\ parentElementOrShadowHost(result.ancestor) # rootOf(options)
    /\ result' = relativesOf(parentElementOrShadowHost(result.ancestor))
    /\ UNCHANGED <<dom, target, options, pc, result2, coll, offered, cands>>
    /\ UNCHANGED <<roleVars, mock, chan, runner, memo, pointer>>

NextTree == FirstAncestor \/ NextAncestor

SpecTree == InitTree /\ [][NextTree]_vars

\* The elements of the subtree of a, a included.
SubtreeOf(a) == {e \in Elements : contains(a, e)}

\* C35: for every ancestor the loop of _generateWithRelatives visits, the
\* list of relatives starts with the ancestor, holds only elements of its
\* subtree at most 4 levels below it, none of them twice, and has at most
\* 100 members, whatever the size of the subtree.
C35_RelativesShallowAndBounded ==
    pc = "relatives" =>
        /\ Len(result.relatives) >= 1
        /\ result.relatives[1] = result.ancestor
        /\ Len(result.relatives) <= 100
        /\ \A i \in 1..Len(result.relatives) :
              /\ result.relatives[i] \in SubtreeOf(result.ancestor)
              /\ depthBelow(result.ancestor, result.relatives[i]) <= 4
              /\ \A j \in 1..Len(result.relatives) :
                    result.relatives[i] = result.relatives[j] => i = j

\* The subtree of the ancestor has more than 100 elements within 4 levels
\* and an element 5 levels below: the list is cut at 100.
C35_Witness ==
    /\ pc = "relatives"
    /\ Cardinality({e \in SubtreeOf(result.ancestor) : depthBelow(result.ancestor, e) <= 4}) > 100
    /\ \E e \in SubtreeOf(result.ancestor) : depthBelow(result.ancestor, e) = 5
    /\ Len(result.relatives) = 100

(***************************************************************************)
(* _generateWithChaining with its two caches, lines 253-268, and the       *)
(* lookups generateSelector makes through _generateWithRelatives, one at a *)
(* time (lines 155-165, 221-236).                                          *)
(***************************************************************************)
MaxMemoElements == 3     \* elements below the document element

MemoKinds ==
    { Elem("DIV"),
      [Elem("DIV") EXCEPT !.text = <<"a">>],
      [Elem("BUTTON") EXCEPT !.text = <<"b">>] }

MemoDocuments ==
    UNION {{[parent |-> p, el |-> <<Html>> \o k] : p \in ParentVectors(n + 1), k \in [1..n -> MemoKinds]}
           : n \in 1..MaxMemoElements}

\* Line 255 with one cache for both phases.
cacheFor_OneMap(allowTextEngine) == "withText"

\* Line 255: the cache of the phase.
cacheFor(allowTextEngine) == IF allowTextEngine THEN "withText" ELSE "withoutText"

\* The caches of a new SelectorGenerator (lines 114-115), with the number of
\* times each (element, phase) went through lines 258-265.
NewCaches == [withText |-> <<>>, withoutText |-> <<>>, chaining2 |-> <<>>]

\* cache.set(targetElement, bestForElement), line 265.
cacheSet(caches, targetElement, allowTextEngine, bestForElement) ==
    [caches EXCEPT
        ![cacheFor(allowTextEngine)] = (targetElement :> bestForElement) @@ @,
        !.chaining2 = (<<targetElement, allowTextEngine>> :>
                          (IF <<targetElement, allowTextEngine>> \in DOMAIN @
                           THEN @[<<targetElement, allowTextEngine>>] + 1 ELSE 1)) @@ @]

RECURSIVE cachedChaining(_, _, _, _, _)
RECURSIVE cachedViaParents(_, _, _, _, _, _, _)
\* Lines 261-264: the loop over the parents, each parent's chain looked up
\* in the caches as they are by then.
cachedViaParents(caches, ctx, root, targetElement, allowTextEngine, parents, bestForElement) ==
    IF parents = <<>> THEN [caches |-> caches, best |-> bestForElement]
    ELSE LET collection == cachedChaining(caches, ctx, root, Head(parents), FALSE)
         IN cachedViaParents(collection.caches, ctx, root, targetElement, allowTextEngine,
                Tail(parents),
                updateWithCollection(bestForElement,
                    chain(collection.best,
                          generateWithoutChaining(ctx, Head(parents), targetElement, allowTextEngine))))

\* Lines 253-268: what the call returns, and the caches after it.
cachedChaining(caches, ctx, root, targetElement, allowTextEngine) ==
    IF targetElement \in DOMAIN caches[cacheFor(allowTextEngine)]
    THEN [caches |-> caches, best |-> caches[cacheFor(allowTextEngine)][targetElement]]
    ELSE LET walked == cachedViaParents(caches, ctx, root, targetElement, allowTextEngine,
                           properAncestorsBelow(root, targetElement),
                           updateWithCollection(NoBest,
                               generateWithoutChaining(ctx, root, targetElement, allowTextEngine)))
         IN [caches |-> cacheSet(walked.caches, targetElement, allowTextEngine, walked.best),
             best |-> walked.best]

\* The iterations of line 226 for one call of _generateWithRelatives, in order.
relativeLookups(root, anchor) ==
    FlattenSeq([i \in 1..Len(<<anchor>> \o properAncestorsBelow(root, anchor)) |->
        LET ancestor == (<<anchor>> \o properAncestorsBelow(root, anchor))[i]
            relatives == shallowDescendants(ancestor, kShallowDepth, kShallowTotal, <<>>)
        IN [j \in 1..Len(relatives) |->
               [anchor |-> anchor, ancestor |-> ancestor, relative |-> relatives[j],
                last |-> i = Len(<<anchor>> \o properAncestorsBelow(root, anchor))
                          /\ j = Len(relatives)]]])

\* The calls of _generateWithRelatives, lines 157 and 160-164, as their iterations.
allLookups(opts, root, targetElement) ==
    FlattenSeq([i \in 1..Len(<<targetElement>>
                              \o (IF opts.retargetForText
                                  THEN SelectSeq(properAncestorsBelow(root, targetElement),
                                                 LAMBDA parent : sameTextEntry(parent, targetElement))
                                  ELSE <<>>)) |->
        relativeLookups(root, (<<targetElement>>
                               \o (IF opts.retargetForText
                                   THEN SelectSeq(properAncestorsBelow(root, targetElement),
                                                  LAMBDA parent : sameTextEntry(parent, targetElement))
                                   ELSE <<>>))[i])])

NoLookup == [relative |-> Undef, hit |-> FALSE, best |-> NoBest]

\* One iteration of lines 226-232, and line 157/163 after the last one of a call.
lookup(m, ctx, root, item) ==
    LET found == cachedChaining(m.caches, ctx, root, item.relative, TRUE)
        relatives == updateWithCollection(m.relatives,
                        chainIf(item.ancestor # item.anchor,
                                chainIf(item.relative # item.ancestor,
                                        found.best, generateParent(item.relative, item.ancestor)),
                                generateWithoutChaining(ctx, item.ancestor, item.anchor, TRUE)))
    IN [caches |-> found.caches,
        relatives |-> IF item.last THEN NoBest ELSE relatives,
        result |-> IF item.last THEN updateWithCollection(m.result, relatives) ELSE m.result,
        todo |-> Tail(m.todo),
        looked |-> [relative |-> item.relative,
                    hit |-> item.relative \in DOMAIN m.caches[cacheFor(TRUE)],
                    best |-> found.best]]

InitMemo ==
    /\ dom \in MemoDocuments
    /\ target \in 1..Len(dom.parent)
    /\ options \in {Options(FALSE, FALSE, Undef), Options(TRUE, FALSE, Undef), Options(FALSE, FALSE, 1)}
    /\ pc = "start"
    /\ result = NoResult
    /\ result2 = NoResult
    /\ coll = <<>>
    /\ offered = <<>>
    /\ cands = {}
    /\ parsed = NoParsed
    /\ queried = NoQueried
    /\ mock = NoMock
    /\ chan = NoChan
    /\ runner = NoRunner
    /\ memo = NoMemo
    /\ pointer = NoPointer

\* Lines 138-153: the options are written, the target retargeted, the tree
\* preprocessed; a target that is the root is answered at once (lines 148-149).
Begin ==
    /\ pc = "start"
    /\ options' = optionsUsed(target, options)
    /\ IF retargeted(target, options') = options.root
       THEN /\ result' = generateSelector(target, options)
            /\ pc' = "called"
            /\ memo' = memo
       ELSE /\ result' = result
            /\ pc' = "generate"
            /\ memo' = [caches |-> NewCaches, relatives |-> NoBest, result |-> NoBest,
                        todo |-> allLookups(options', rootOf(options'), retargeted(target, options')),
                        looked |-> NoLookup]
    /\ UNCHANGED <<dom, target, result2, coll, offered, cands>>
    /\ UNCHANGED <<roleVars, mock, chan, runner, pointer>>

\* One iteration of the loop of line 226.
Lookup ==
    /\ pc = "generate"
    /\ memo.todo # <<>>
    /\ memo' = lookup(memo, CallCtx, EffRoot, Head(memo.todo))
    /\ UNCHANGED <<dom, target, options, pc, result, result2, coll, offered, cands>>
    /\ UNCHANGED <<roleVars, mock, chan, runner, pointer>>

\* Lines 172-173.
Finish ==
    /\ pc = "generate"
    /\ memo.todo = <<>>
    /\ result' = returnBest(options, EffRoot, EffTarget, memo.result)
    /\ pc' = "called"
    /\ UNCHANGED <<dom, target, options, result2, coll, offered, cands>>
    /\ UNCHANGED <<roleVars, mock, chan, runner, memo, pointer>>

NextMemo == Begin \/ Lookup \/ Finish

SpecMemo == InitMemo /\ [][NextMemo]_vars

\* C36, at most once: no (element, phase) pair goes through the computation
\* of lines 258-265 twice in one call.
C36_ComputedAtMostOnce ==
    pc = "generate" =>
        \A key \in DOMAIN memo.caches.chaining2 : memo.caches.chaining2[key] <= 1

\* C36: within one call, every entry of the two caches, hence every later
\* lookup, equals the chained result computed from scratch for that
\* element and phase, each pair is computed at most once, and the call
\* returns what it returns without the caches.
C36_MemoEqualsRecomputation ==
    /\ pc = "generate" =>
          /\ \A e \in DOMAIN memo.caches.withText :
                memo.caches.withText[e] = generateWithChaining(CallCtx, EffRoot, e, TRUE)
          /\ \A e \in DOMAIN memo.caches.withoutText :
                memo.caches.withoutText[e] = generateWithChaining(CallCtx, EffRoot, e, FALSE)
          /\ memo.looked.relative # Undef =>
                memo.looked.best = generateWithChaining(CallCtx, EffRoot, memo.looked.relative, TRUE)
          /\ C36_ComputedAtMostOnce
    /\ pc = "called" => result = generateSelector(target, options)

\* A lookup answered from the cache, for an element whose with-text and
\* without-text results differ.
C36_Witness ==
    /\ pc = "generate"
    /\ memo.looked.hit
    /\ generateWithChaining(CallCtx, EffRoot, memo.looked.relative, TRUE)
         # generateWithChaining(CallCtx, EffRoot, memo.looked.relative, FALSE)
    /\ memo.caches.withoutText # <<>>

SeqToSet(seq) == {seq[i] : i \in 1..Len(seq)}

\* C37: whenever generateSelector returns, the elements its selector
\* matches in the scope include the target as retargeted for the action.
C37_SelectorMatchesTarget ==
    (pc # "start" /\ isInsideScope(EffRoot, EffTarget) /\ Returned(result))
        => EffTarget \in SeqToSet(querySelectorAll(options.testIdAttributeName, result.selector, EffRoot))

(***************************************************************************)
(* The in-page WebSocket mock, server/injected/webSocketMock.ts:22-305:    *)
(* the page socket (WebSocketImpl), route.client (_client), route.server   *)
(* (_server) and the real socket (_ws) live in the page, and the handler   *)
(* is called there.  Events are kept by their type, in dispatch order.     *)
(***************************************************************************)
MaxMockCalls == 4        \* calls made by page code and by the route handler

\* Handlers: none matches the url; one that mocks; one that connects.
ImplHandlers ==
    { [matched |-> FALSE, connects |-> FALSE],
      [matched |-> TRUE, connects |-> FALSE],
      [matched |-> TRUE, connects |-> TRUE] }

\* The constructor before _callHandler, lines 144-213.
NewWebSocketImpl ==
    [ws |-> [readyState |-> CONNECTING, events |-> <<>>],
     client |-> [readyState |-> OPEN, events |-> <<>>],
     server |-> [readyState |-> CONNECTING, events |-> <<>>],
     hasWs |-> FALSE,
     native |-> [readyState |-> Undef, wire |-> <<>>, errored |-> FALSE],
     wsBufferedMessages |-> <<>>,
     timer |-> FALSE,
     calls |-> 0,
     serverMessages |-> 0]

impl_dispatchEvent(m, type) == [m EXCEPT !.ws.events = Append(@, type)]

\* _ensureOpened without the test of lines 296-297.
impl_ensureOpened_Always(m) ==
    impl_dispatchEvent([m EXCEPT !.ws.readyState = OPEN], "open")

\* _ensureOpened, lines 295-300.
impl_ensureOpened(m) ==
    IF m.ws.readyState # CONNECTING THEN m
    ELSE impl_dispatchEvent([m EXCEPT !.ws.readyState = OPEN], "open")

\* _cleanupWS, lines 284-293.
impl_cleanupWS(m) ==
    IF ~m.hasWs THEN m
    ELSE [m EXCEPT !.hasWs = FALSE, !.wsBufferedMessages = <<>>]

\* this._ws.close(code, reason) of the real socket.
impl_wsClose(m) ==
    IF m.native.readyState = CONNECTING THEN [m EXCEPT !.native.readyState = CLOSING]
    ELSE IF m.native.readyState = OPEN
    THEN [m EXCEPT !.native.readyState = CLOSING, !.native.wire = Append(@, "close")]
    ELSE m

\* The close of lines 155-158, of lines 273-276 and of lines 277-280.
impl_closePage(m) ==
    IF m.ws.readyState # CLOSED
    THEN impl_dispatchEvent([m EXCEPT !.ws.readyState = CLOSED], "close")
    ELSE m

impl_closeServer(m) ==
    IF m.server.readyState # CLOSED
    THEN [m EXCEPT !.server.readyState = CLOSED, !.server.events = Append(@, "close")]
    ELSE m

impl_closeClient(m) ==
    IF m.client.readyState # CLOSED
    THEN [m EXCEPT !.client.readyState = CLOSED, !.client.events = Append(@, "close")]
    ELSE m

RECURSIVE impl_client_onclose(_)
RECURSIVE impl_onWSClose(_)
\* _client._onclose, lines 154-166: route.client.close().
impl_client_onclose(m) ==
    IF impl_closePage(m).hasWs
    THEN impl_onWSClose(impl_wsClose(impl_closePage(m)))
    ELSE impl_closePage(m)

\* _onWSClose, lines 271-282.
impl_onWSClose(m) ==
    impl_client_onclose(impl_closeClient(impl_closeServer(impl_cleanupWS(m))))

\* _client._onsend, lines 148-153: route.client.send(); a call that throws
\* changes nothing.
impl_client_onsend(m) ==
    IF m.client.readyState # OPEN THEN m
    ELSE impl_dispatchEvent(impl_ensureOpened(m), "message")

\* _server._onsend, lines 169-180: route.server.send().
impl_server_onsend(m) ==
    IF m.server.readyState # OPEN THEN m
    ELSE IF ~m.hasWs THEN m
    ELSE IF m.native.readyState = CONNECTING
    THEN [m EXCEPT !.wsBufferedMessages = Append(@, "message")]
    ELSE IF m.native.readyState = OPEN
    THEN [m EXCEPT !.native.wire = Append(@, "message")]
    ELSE m

\* _server._onclose, lines 181-186: route.server.close().
impl_server_onclose(m) ==
    IF m.hasWs THEN impl_wsClose(m) ELSE impl_onWSClose(m)

\* _onsend, lines 191-201: ws.send() of page code; `prevented` is what the
\* listeners of route.client did with the event.
impl_onsend(m, prevented) ==
    IF m.ws.readyState # OPEN THEN m
    ELSE IF ~prevented /\ m.hasWs
    THEN impl_server_onsend([m EXCEPT !.client.events = Append(@, "message")])
    ELSE [m EXCEPT !.client.events = Append(@, "message")]

\* _onclose, lines 202-208: ws.close() of page code with a valid code.
impl_onclose(m) ==
    impl_server_onclose(
        [m EXCEPT !.ws.readyState = IF @ = OPEN \/ @ = CONNECTING THEN CLOSING ELSE @])

\* _connect, lines 232-269: route.server.connect().
impl_connect(m) ==
    IF m.server.readyState # CONNECTING \/ m.hasWs THEN m
    ELSE [m EXCEPT !.server.readyState = OPEN, !.server.events = Append(@, "open"),
                   !.hasWs = TRUE, !.native.readyState = CONNECTING]

\* _callHandler, lines 218-230, with a handler that returns at once: the
\* page socket of a handler that did not connect opens in a task of its own.
impl_callHandler(m, handler) ==
    IF ~handler.matched THEN impl_connect(m)
    ELSE IF handler.connects THEN impl_connect(m)
    ELSE [m EXCEPT !.timer = TRUE]

\* this._ws.onopen, lines 243-248.
impl_ws_onopen(m) ==
    impl_ensureOpened([m EXCEPT !.native.readyState = OPEN,
                                !.native.wire = @ \o m.wsBufferedMessages,
                                !.wsBufferedMessages = <<>>])

\* this._ws.onmessage, lines 254-259.
impl_ws_onmessage(m, prevented) ==
    IF prevented THEN [m EXCEPT !.server.events = Append(@, "message")]
    ELSE impl_client_onsend([m EXCEPT !.server.events = Append(@, "message")])

\* this._ws.onclose, lines 250-252.
impl_ws_onclose(m) == impl_onWSClose([m EXCEPT !.native.readyState = CLOSED])

\* this._ws.onerror, lines 261-265.
impl_ws_onerror(m) == impl_dispatchEvent([m EXCEPT !.native.errored = TRUE], "error")

InitImpl ==
    /\ dom = CollDom
    /\ target = Len(CollDom.parent)
    /\ options = Options(FALSE, FALSE, Undef)
    /\ pc = "impl"
    /\ result = NoResult
    /\ result2 = NoResult
    /\ coll = <<>>
    /\ offered = <<>>
    /\ cands = {}
    /\ parsed = NoParsed
    /\ queried = NoQueried
    /\ mock \in {impl_callHandler(NewWebSocketImpl, handler) : handler \in ImplHandlers}
    /\ chan = NoChan
    /\ runner = NoRunner
    /\ memo = NoMemo
    /\ pointer = NoPointer

ImplStep(m) ==
    /\ mock' = m
    /\ UNCHANGED <<dom, target, options, pc, result, result2, coll, offered, cands>>
    /\ UNCHANGED <<roleVars, chan, runner, memo, pointer>>

\* A call by page code or by the route handler is counted.
ImplCalled(m) == [m EXCEPT !.calls = @ + 1]

\* Page code calls ws.send(message).
ImplPageSend ==
    /\ pc = "impl"
    /\ mock.calls < MaxMockCalls
    /\ \E prevented \in BOOLEAN : ImplStep(ImplCalled(impl_onsend(mock, prevented)))

\* Page code calls ws.close(code, reason).
ImplPageClose ==
    /\ pc = "impl"
    /\ mock.calls < MaxMockCalls
    /\ ImplStep(ImplCalled(impl_onclose(mock)))

\* The handler calls route.client.send(message), in its body or later.
ImplClientSend ==
    /\ pc = "impl"
    /\ mock.calls < MaxMockCalls
    /\ ImplStep(ImplCalled(impl_client_onsend(mock)))

\* The handler calls route.client.close(code, reason).
ImplClientClose ==
    /\ pc = "impl"
    /\ mock.calls < MaxMockCalls
    /\ ImplStep(ImplCalled(impl_client_onclose(mock)))

\* The handler calls route.server.send(message).
ImplServerSend ==
    /\ pc = "impl"
    /\ mock.calls < MaxMockCalls
    /\ ImplStep(ImplCalled(impl_server_onsend(mock)))

\* The handler calls route.server.close(code, reason).
ImplServerClose ==
    /\ pc = "impl"
    /\ mock.calls < MaxMockCalls
    /\ ImplStep(ImplCalled(impl_server_onclose(mock)))

\* The handler calls route.server.connect() after it returned.
ImplServerConnect ==
    /\ pc = "impl"
    /\ mock.calls < MaxMockCalls
    /\ ImplStep(ImplCalled(impl_connect(mock)))

\* The task scheduled by setTimeout(() => this._ensureOpened()), line 225.
ImplTimer ==
    /\ pc = "impl"
    /\ mock.timer
    /\ ImplStep(impl_ensureOpened([mock EXCEPT !.timer = FALSE]))

\* The real socket's events reach the mock while its handlers are set.
ImplNativeOpen ==
    /\ pc = "impl"
    /\ mock.hasWs
    /\ mock.native.readyState = CONNECTING
    /\ ImplStep(impl_ws_onopen(mock))

ImplNativeMessage ==
    /\ pc = "impl"
    /\ mock.hasWs
    /\ mock.native.readyState = OPEN
    /\ mock.serverMessages < MaxServerMessages
    /\ \E prevented \in BOOLEAN :
          ImplStep(impl_ws_onmessage([mock EXCEPT !.serverMessages = @ + 1], prevented))

ImplNativeError ==
    /\ pc = "impl"
    /\ mock.hasWs
    /\ ~mock.native.errored
    /\ mock.native.readyState # CLOSED
    /\ ImplStep(impl_ws_onerror(mock))

ImplNativeClose ==
    /\ pc = "impl"
    /\ mock.hasWs
    /\ mock.native.readyState # CLOSED
    /\ ImplStep(impl_ws_onclose(mock))

NextImpl ==
    \/ ImplPageSend
    \/ ImplPageClose
    \/ ImplClientSend
    \/ ImplClientClose
    \/ ImplServerSend
    \/ ImplServerClose
    \/ ImplServerConnect
    \/ ImplTimer
    \/ ImplNativeOpen
    \/ ImplNativeMessage
    \/ ImplNativeError
    \/ ImplNativeClose

SpecImpl == InitImpl /\ [][NextImpl]_vars

\* No 'message', 'open' or 'close' event follows a 'close' event in the list.
NothingAfterClose(events) ==
    \A i \in 1..Len(events) : \A j \in 1..Len(events) :
        (i < j /\ events[i] = "close") => events[j] \notin {"message", "open", "close"}

\* C38: after the 'close' event of the page socket, which is dispatched as
\* it becomes CLOSED, no 'message', 'open' or 'close' event is dispatched to
\* it, whatever the route handler calls afterwards.
C38_NothingDispatchedAfterClosed ==
    pc = "impl" => NothingAfterClose(mock.ws.events)

(***************************************************************************)
(* Both mocks side by side: a socket of the in-page mock, or a socket of   *)
(* the mock routed through node, each with its own steps.                  *)
(***************************************************************************)
InitMocks == InitWS \/ InitImpl

NextMocks == NextNav \/ NextImpl

SpecMocks == InitMocks /\ [][NextMocks]_vars

\* The readyState values of the three mocked objects: page socket,
\* route.client, route.server.
ReadyStates(m) ==
    IF pc = "impl"
    THEN <<m.ws.readyState, m.client.readyState, m.server.readyState>>
    ELSE <<m.ws.readyState, m.route.client, m.route.server>>

\* C39: no step of either mock, whoever takes it (page code, the route
\* handler, the real server, a navigation), moves the readyState of the
\* page socket, of route.client or of route.server to an earlier value of
\* CONNECTING (0), OPEN (1), CLOSING (2), CLOSED (3).
C39_ReadyStateOnlyForward ==
    [][\A i \in 1..3 : ReadyStates(mock')[i] >= ReadyStates(mock)[i]]_vars

\* The in-page page socket went CONNECTING, OPEN, CLOSING, CLOSED: it was
\* opened, page code closed it, and the real server's close ended it,
\* closing route.client and route.server with it.
C39_Witness ==
    /\ pc = "impl"
    /\ mock.ws.events = <<"open", "close">>
    /\ mock.native.wire = <<"close">>
    /\ ReadyStates(mock) = <<CLOSED, CLOSED, CLOSED>>

(***************************************************************************)
(* retryPointerAction and performPointerAction, server/actions.ts:82-205.  *)
(* A call is followed from one await to the next; what the page answers    *)
(* at each await is chosen freely among the values the await can give, and *)
(* the progress may stop running (timeout, abort) while the call waits.    *)
(***************************************************************************)
MaxRetries == 5

\* Line 85.
waitTime == <<0, 20, 100, 100, 500>>

\* Line 102: waitTime[Math.min(retry - 1, waitTime.length - 1)].
timeoutOf(retry) == waitTime[Min(retry - 1, Len(waitTime) - 1) + 1]

\* Line 112: scrollOptions[retry % scrollOptions.length] is defined.
forceScrollOptions(retry) == retry % 4 # 0

\* The results on which the loop goes round again, lines 114-132.
Retriable == {"error:notvisible", "error:notinviewport", "hitTargetDescription"}

NewPointerAction(force, trial) ==
    [running |-> TRUE, at |-> "call", retry |-> 0, returned |-> "",
     force |-> force, trial |-> trial,
     completed |-> 0,      \* attempts for which performPointerAction returned 'done'
     performed |-> 0]      \* calls of action(point)

returnWith(p, value) == [p EXCEPT !.at = "returned", !.returned = value]

throwError(p) == [p EXCEPT !.at = "threw"]

\* Lines 99-111 and 135: the loop test, down to the first await of the round.
loopHead(p) ==
    IF ~p.running THEN returnWith(p, "done")
    ELSE IF p.retry > 0 /\ timeoutOf(p.retry) > 0 THEN [p EXCEPT !.at = "wait"]
    ELSE [p EXCEPT !.at = "stable"]

\* Lines 113-133: performPointerAction gave `outcome`.
attemptEnds(p, outcome) ==
    IF outcome \in Retriable
    THEN IF p.force THEN throwError([p EXCEPT !.retry = @ + 1])
         ELSE loopHead([p EXCEPT !.retry = @ + 1])
    ELSE returnWith([p EXCEPT !.retry = @ + 1,
                              !.completed = IF outcome = "done" THEN @ + 1 ELSE @],
                    outcome)

\* Lines 105-107: the wait in the page is over.
waitEnds(p, outcome) ==
    IF outcome = "error:notconnected" THEN returnWith(p, outcome)
    ELSE [p EXCEPT !.at = "stable"]

\* Lines 142-149: waitForDisplayedAtStablePosition answered.
stableEnds(p, outcome) ==
    IF outcome # "done" THEN attemptEnds(p, outcome)
    ELSE IF ~p.running THEN throwError(p)
    ELSE [p EXCEPT !.at = "scroll"]

\* Lines 150-164: the scroll answered.
scrollEnds(p, scrolled) ==
    IF scrolled # "done" THEN attemptEnds(p, scrolled)
    ELSE [p EXCEPT !.at = "point"]

\* Lines 179-185, once the point is known to receive the events.
pointReady(p) ==
    IF p.trial THEN attemptEnds(p, "done") ELSE [p EXCEPT !.at = "input"]

\* Lines 164-170: offsetPoint or clickablePoint answered.
pointEnds(p, maybePoint) ==
    IF maybePoint # "point" THEN attemptEnds(p, maybePoint)
    ELSE IF ~p.force THEN [p EXCEPT !.at = "hit"]
    ELSE pointReady(p)

\* Lines 173-177: checkHitTargetAt answered.
hitEnds(p, hitTargetResult) ==
    IF hitTargetResult # "done" THEN attemptEnds(p, hitTargetResult)
    ELSE pointReady(p)

\* Lines 185-204: the callback of waitForSignalsCreatedBy runs.
inputEnds(p) ==
    IF ~p.running THEN throwError(p)
    ELSE attemptEnds([p EXCEPT !.performed = @ + 1], "done")

InitPointer ==
    /\ dom = CollDom
    /\ target = Len(CollDom.parent)
    /\ options = Options(FALSE, FALSE, Undef)
    /\ pc = "pointer"
    /\ result = NoResult
    /\ result2 = NoResult
    /\ coll = <<>>
    /\ offered = <<>>
    /\ cands = {}
    /\ parsed = NoParsed
    /\ queried = NoQueried
    /\ mock = NoMock
    /\ chan = NoChan
    /\ runner = NoRunner
    /\ memo = NoMemo
    /\ pointer \in {loopHead(NewPointerAction(force, trial)) : force \in BOOLEAN, trial \in BOOLEAN}

PointerStep(p) ==
    /\ pointer' = p
    /\ UNCHANGED <<dom, target, options, pc, result, result2, coll, offered, cands>>
    /\ UNCHANGED <<roleVars, mock, chan, runner, memo>>

\* The call waits at `at`, in an attempt the model follows.
Awaiting(at) == pc = "pointer" /\ pointer.at = at /\ pointer.retry < MaxRetries

WaitEnds ==
    /\ Awaiting("wait")
    /\ \E answer \in {"undefined", "error:notconnected"} : PointerStep(waitEnds(pointer, answer))

StableEnds ==
    /\ Awaiting("stable")
    /\ \E answer \in {"done", "error:notconnected"} : PointerStep(stableEnds(pointer, answer))

ScrollEnds ==
    /\ Awaiting("scroll")
    /\ \E answer \in (IF forceScrollOptions(pointer.retry)
                      THEN {"done", "error:notconnected"}
                      ELSE {"done", "error:notvisible", "error:notconnected"}) :
          PointerStep(scrollEnds(pointer, answer))

PointEnds ==
    /\ Awaiting("point")
    /\ \E answer \in {"point", "error:notvisible", "error:notinviewport", "error:notconnected"} :
          PointerStep(pointEnds(pointer, answer))

HitEnds ==
    /\ Awaiting("hit")
    /\ \E answer \in {"done", "error:notconnected", "hitTargetDescription"} :
          PointerStep(hitEnds(pointer, answer))

InputEnds ==
    /\ Awaiting("input")
    /\ PointerStep(inputEnds(pointer))

\* The progress times out or is aborted while the call waits:
\* progress.isRunning() is false from then on.
ProgressStops ==
    /\ pc = "pointer"
    /\ pointer.at \notin {"returned", "threw"}
    /\ pointer.running
    /\ PointerStep([pointer EXCEPT !.running = FALSE])

NextPointer ==
    \/ WaitEnds
    \/ StableEnds
    \/ ScrollEnds
    \/ PointEnds
    \/ HitEnds
    \/ InputEnds
    \/ ProgressStops

SpecPointer == InitPointer /\ [][NextPointer]_vars

\* C40: retryPointerAction returns 'done' only after performPointerAction
\* returned 'done' in one of its attempts.
C40_DoneOnlyAfterCompletedAttempt ==
    (pc = "pointer" /\ pointer.at = "returned" /\ pointer.returned = "done")
        => pointer.completed > 0

\* The same as long as the progress keeps running.
C40_DoneOnlyAfterCompletedAttemptWhileRunning ==
    (pc = "pointer" /\ pointer.at = "returned" /\ pointer.returned = "done" /\ pointer.running)
        => pointer.completed > 0
====
